---- MODULE Spec2Model ----
(***************************************************************************)
(* B+ tree index of BPLUS_TREE_IMPLEMENTATION_GUIDE.instructions.md:       *)
(* page classes (section 4), tree operations (section 5), latch coupling   *)
(* (sections 7, 8).  Array indices are 0-based as in the guide; the        *)
(* helpers below convert to TLA+ sequences.                                *)
(***************************************************************************)
EXTENDS Integers, Sequences, FiniteSets, TLC

\* ---------------------------------------------------------------- bounds
MaxKey == 6
MaxAltKey == 1
NumPages == 15
TreeShare == 8
NumThreads == 2
MaxOps == 3
AllocReserve == 3
RunFuel == 12
MaxAdvances == 7
MaxKeyAdvances == 1
MaxSpare == 1
MaxCapacity == 8
DeepReserve == 2
MaxSeparators == 3
DeepShare == 10
MaxTallKey == 8
MaxSlug == 3
MaxPublished == 2
MaxPending == 3

Keys == 1..MaxKey
PageIds == 1..NumPages
Threads == 1..NumThreads
\* record ids: key k is inserted with 100 + k; the keys up to MaxAltKey also with 200 + k
RIDs(key) == IF key <= MaxAltKey THEN {100 + key, 200 + key} ELSE {100 + key}

\* ------------------------------------------------------ program constants
INVALID_PAGE_ID == -1
HEADER_PAGE_ID == 0
INVALID_KEY == 0

\* latch_coupling is the descent of a build: "optimistic" releases ancestors as
\* 7.3 does, "complete" as 8.3 does; "basic" is the Insert of 5.4.1 over the
\* FindLeaf of 5.3.1, which releases nothing before the return; "section12" is the build of the complete
\* algorithms of section 12: the descent of 12.1 (that of 8.3) and the Remove
\* of 12.2, whose Context is allocated with new and holds the header guard;
\* it is the caller's IndexIterator; script counts the calls of the guide's
\* worked scenario made so far, -1 when the calls made are not its beginning;
\* walk records how it was obtained ("begin" for Begin(), "key" for Begin(key)
\* with that key, "none" before) and the operator++ calls made on it since
VARIABLES leaf_max_size, internal_max_size, latch_coupling, pages, root_page_id, th, model, ub,
          nops, it, script, walk

\* the site's Work route (the Work component of the portfolio pages): slug is
\* the route parameter, markdown and error the component's two states, loads
\* the loadWorkMarkdown calls not yet settled, counted by slug
VARIABLES slug, markdown, error, loads

route == <<slug, markdown, error, loads>>

config == <<leaf_max_size, internal_max_size, latch_coupling>>

aux == <<it, script, walk>>

vars == <<config, pages, root_page_id, th, model, ub, nops, aux, route>>

\* the Work route is not mounted: no parameter, nothing shown, nothing pending
Slugs == 1..MaxSlug
Unmounted == slug = 0 /\ markdown = 0 /\ error = 0 /\ loads = [s \in Slugs |-> 0]

\* ------------------------------------------------------------ sequences
InsertSeqAt(s, i, x) == SubSeq(s, 1, i) \o <<x>> \o SubSeq(s, i + 1, Len(s))

RemoveSeqAt(s, i) == SubSeq(s, 1, i) \o SubSeq(s, i + 2, Len(s))

\* ------------------------------------------------------------ base page
FreePage == [type |-> "free", max |-> 0, keys |-> <<>>, vals |-> <<>>, next |-> INVALID_PAGE_ID]

\* a page of the buffer pool that something else than the tree uses
OtherPage == [FreePage EXCEPT !.type = "other"]

\* a buffer pool of which the tree can get the pages 1..share
Pool(share) == [p \in PageIds |-> IF p <= share THEN FreePage ELSE OtherPage]

GetSize(p) == Len(p.keys)

GetMaxSize(p) == p.max

\* the minimum of the base page's method list: max_size / 2
GetMinSizeHalf(p) == p.max \div 2

GetMinSize(p) == (p.max + 1) \div 2

IsLeafPage(p) == p.type = "leaf"

KeyAt(p, i) == p.keys[i + 1]

ValueAt(p, i) == p.vals[i + 1]

SetKeyAt(p, i, k) == [p EXCEPT !.keys[i + 1] = k]

\* -------------------------------------------------------- internal page
InternalInit(max_size) ==
  [type |-> "internal", max |-> max_size - 1, keys |-> <<>>, vals |-> <<>>, next |-> INVALID_PAGE_ID]

ValueIndex(p, value) ==
  IF \E i \in 0..(GetSize(p) - 1) : ValueAt(p, i) = value
  THEN CHOOSE i \in 0..(GetSize(p) - 1) :
         /\ ValueAt(p, i) = value
         /\ \A j \in 0..(i - 1) : ValueAt(p, j) # value
  ELSE -1

RECURSIVE LookupSearchTiesLeft(_, _, _, _)
LookupSearchTiesLeft(p, key, left, right) ==
  IF left <= right
  THEN LET mid == left + ((right - left) \div 2)
       IN IF key <= KeyAt(p, mid)
          THEN LookupSearchTiesLeft(p, key, left, mid - 1)
          ELSE LookupSearchTiesLeft(p, key, mid + 1, right)
  ELSE right

RECURSIVE LookupSearch(_, _, _, _)
LookupSearch(p, key, left, right) ==
  IF left <= right
  THEN LET mid == left + ((right - left) \div 2)
       IN IF key < KeyAt(p, mid)
          THEN LookupSearch(p, key, left, mid - 1)
          ELSE LookupSearch(p, key, mid + 1, right)
  ELSE right

InternalLookup(p, key) ==
  IF GetSize(p) = 1
  THEN ValueAt(p, 0)
  ELSE ValueAt(p, LookupSearch(p, key, 1, GetSize(p) - 1))

InternalInsertAt(p, index, key, value) ==
  [p EXCEPT !.keys = InsertSeqAt(p.keys, index, key),
            !.vals = InsertSeqAt(p.vals, index, value)]

InsertNodeAfter(p, old_value, new_key, new_value) ==
  InternalInsertAt(p, ValueIndex(p, old_value) + 1, new_key, new_value)

InternalRemove(p, index) ==
  IF index < GetSize(p)
  THEN [p EXCEPT !.keys = RemoveSeqAt(p.keys, index),
                 !.vals = RemoveSeqAt(p.vals, index)]
  ELSE [p EXCEPT !.keys = SubSeq(p.keys, 1, GetSize(p) - 1),
                 !.vals = SubSeq(p.vals, 1, GetSize(p) - 1)]

RemoveAndReturnOnlyChild(p) == [page |-> [p EXCEPT !.keys = <<>>, !.vals = <<>>], only_child |-> ValueAt(p, 0)]

InternalMoveHalfTo(p, recipient) ==
  LET mid_index == GetSize(p) \div 2
  IN [self |-> [p EXCEPT !.keys = SubSeq(p.keys, 1, mid_index),
                         !.vals = SubSeq(p.vals, 1, mid_index)],
      recipient |-> [recipient EXCEPT !.keys = SubSeq(p.keys, mid_index + 1, GetSize(p)),
                                      !.vals = SubSeq(p.vals, mid_index + 1, GetSize(p))],
      middle_key |-> KeyAt(p, mid_index)]

InternalMoveAllTo(p, recipient, middle_key) ==
  [self |-> [p EXCEPT !.keys = <<>>, !.vals = <<>>],
   recipient |-> [recipient EXCEPT !.keys = recipient.keys \o p.keys,
                                   !.vals = recipient.vals \o p.vals]]

InternalMoveFirstToEndOf(p, recipient, middle_key) ==
  [self |-> InternalRemove(p, 0),
   recipient |-> [recipient EXCEPT !.keys = Append(recipient.keys, KeyAt(p, 0)),
                                   !.vals = Append(recipient.vals, ValueAt(p, 0))]]

InternalMoveLastToFrontOf(p, recipient, middle_key) ==
  [self |-> [p EXCEPT !.keys = SubSeq(p.keys, 1, GetSize(p) - 1),
                      !.vals = SubSeq(p.vals, 1, GetSize(p) - 1)],
   recipient |-> InternalInsertAt(recipient, 0, KeyAt(p, GetSize(p) - 1), ValueAt(p, GetSize(p) - 1))]

\* -------------------------------------------------------------- leaf page
LeafInit(max_size) ==
  [type |-> "leaf", max |-> max_size - 1, keys |-> <<>>, vals |-> <<>>, next |-> INVALID_PAGE_ID]

RECURSIVE LowerBoundSearch(_, _, _, _)
LowerBoundSearch(p, key, left, right) ==
  IF left < right
  THEN LET mid == left + ((right - left) \div 2)
       IN IF KeyAt(p, mid) < key
          THEN LowerBoundSearch(p, key, mid + 1, right)
          ELSE LowerBoundSearch(p, key, left, mid)
  ELSE left

LowerBound(p, key) == LowerBoundSearch(p, key, 0, GetSize(p))

LeafHasKey(p, key) ==
  LET index == LowerBound(p, key)
  IN index < GetSize(p) /\ KeyAt(p, index) = key

LeafLookup(p, key) ==
  IF LeafHasKey(p, key)
  THEN [found |-> TRUE, value |-> ValueAt(p, LowerBound(p, key))]
  ELSE [found |-> FALSE, value |-> 0]

LeafInsert(p, key, value) ==
  LET index == LowerBound(p, key)
  IN IF index < GetSize(p) /\ KeyAt(p, index) = key
     THEN p
     ELSE [p EXCEPT !.keys = InsertSeqAt(p.keys, index, key),
                    !.vals = InsertSeqAt(p.vals, index, value)]

\* RemoveAt that closes the gap from the wrong side: the last entry goes
RemoveAtDropsLast(p, index) ==
  [p EXCEPT !.keys = RemoveSeqAt(p.keys, GetSize(p) - 1),
            !.vals = RemoveSeqAt(p.vals, GetSize(p) - 1)]

RemoveAt(p, index) ==
  [p EXCEPT !.keys = RemoveSeqAt(p.keys, index),
            !.vals = RemoveSeqAt(p.vals, index)]

LeafMoveHalfTo(p, recipient, recipient_page_id) ==
  LET mid == GetSize(p) \div 2
  IN [self |-> [p EXCEPT !.keys = SubSeq(p.keys, 1, mid),
                         !.vals = SubSeq(p.vals, 1, mid),
                         !.next = recipient_page_id],
      recipient |-> [recipient EXCEPT !.keys = SubSeq(p.keys, mid + 1, GetSize(p)),
                                      !.vals = SubSeq(p.vals, mid + 1, GetSize(p)),
                                      !.next = p.next]]

\* MoveAllTo that copies to the front of the recipient
LeafMoveAllToFront(p, recipient) ==
  [self |-> [p EXCEPT !.keys = <<>>, !.vals = <<>>],
   recipient |-> [recipient EXCEPT !.keys = p.keys \o recipient.keys,
                                   !.vals = p.vals \o recipient.vals,
                                   !.next = p.next]]

LeafMoveAllTo(p, recipient) ==
  [self |-> [p EXCEPT !.keys = <<>>, !.vals = <<>>],
   recipient |-> [recipient EXCEPT !.keys = recipient.keys \o p.keys,
                                   !.vals = recipient.vals \o p.vals,
                                   !.next = p.next]]

LeafMoveFirstToEndOf(p, recipient) ==
  [self |-> RemoveAt(p, 0),
   recipient |-> [recipient EXCEPT !.keys = Append(recipient.keys, KeyAt(p, 0)),
                                   !.vals = Append(recipient.vals, ValueAt(p, 0))]]

LeafMoveLastToFrontOf(p, recipient) ==
  [self |-> [p EXCEPT !.keys = SubSeq(p.keys, 1, GetSize(p) - 1),
                      !.vals = SubSeq(p.vals, 1, GetSize(p) - 1)],
   recipient |-> [recipient EXCEPT !.keys = <<KeyAt(p, GetSize(p) - 1)>> \o recipient.keys,
                                   !.vals = <<ValueAt(p, GetSize(p) - 1)>> \o recipient.vals]]

\* ------------------------------------------------- context and world
\* A world W is [pages, root, th, model, ub, confused]: the buffer pool pages,
\* header->root_page_id_, and every thread's call, Context, position and
\* returned result; nomem tells that a NewPage() of the call found no free page.
\* model maps a key to the record id of its last successful
\* insert, 0 once it was deleted; a thread's was is model[key] when it was called.
NewContext ==
  [pc |-> "idle", op |-> "none", key |-> 0, value |-> 0,
   header_page_ |-> FALSE, header_read |-> FALSE, root_page_id_ |-> INVALID_PAGE_ID,
   write_set_ |-> <<>>, read_guard |-> INVALID_PAGE_ID, siblings |-> <<>>,
   want |-> INVALID_PAGE_ID, node_index |-> 0, ret |-> FALSE, out |-> 0, was |-> 0,
   nomem |-> FALSE]

Guard(page_id) == [pid |-> page_id, held |-> TRUE]

IsRootPage(T, page_id) == page_id = T.root_page_id_

GuardAt(T, idx) == T.write_set_[idx + 1]

BackPid(T) == T.write_set_[Len(T.write_set_)].pid

FreeIds(W) == {p \in PageIds : W.pages[p].type = "free"}

\* bpm->NewPage(): the id of a free page, INVALID_PAGE_ID when the pool has none
NewPage(W) ==
  IF FreeIds(W) = {} THEN INVALID_PAGE_ID
  ELSE CHOOSE p \in FreeIds(W) : \A q \in FreeIds(W) : p <= q

\* the page object built through the guard of a new page.  The id NewPage()
\* returned is used unchecked: with INVALID_PAGE_ID the guard is of no page,
\* what is written through it is undefined and reaches no page of the pool
StorePage(W, t, page_id, page) ==
  IF page_id \in PageIds THEN [W EXCEPT !.pages[page_id] = page]
  ELSE [W EXCEPT !.ub = TRUE, !.th[t].nomem = TRUE]

DeletePage(W, page_id) == [W EXCEPT !.pages[page_id] = FreePage]

\* latches held through guards
HoldsWrite(T, page_id) ==
  \/ page_id = HEADER_PAGE_ID /\ T.header_page_
  \/ \E i \in 1..Len(T.write_set_) : T.write_set_[i].pid = page_id /\ T.write_set_[i].held
  \/ \E i \in 1..Len(T.siblings) : T.siblings[i] = page_id

HoldsRead(T, page_id) ==
  \/ page_id = HEADER_PAGE_ID /\ T.header_read
  \/ page_id # INVALID_PAGE_ID /\ T.read_guard = page_id

CanWritePage(W, page_id) ==
  \A u \in Threads : ~HoldsWrite(W.th[u], page_id) /\ ~HoldsRead(W.th[u], page_id)

CanReadPage(W, page_id) == \A u \in Threads : ~HoldsWrite(W.th[u], page_id)

IsSafeNode(page, operation) ==
  IF operation = "insert" THEN GetSize(page) < GetMaxSize(page)
  ELSE IF operation = "remove" THEN GetSize(page) > GetMinSize(page)
  ELSE FALSE

ReleaseContext(T) == [T EXCEPT !.header_page_ = FALSE, !.write_set_ = <<>>]

\* return of a call: the locals (read guards, sibling guards) go out of scope
Return(W, t, ret, out) ==
  LET T == W.th[t]
  IN [W EXCEPT !.th[t] = [NewContext EXCEPT !.pc = "returned", !.op = T.op, !.key = T.key,
                                            !.value = T.value, !.ret = ret, !.out = out,
                                            !.was = T.was, !.nomem = T.nomem,
                                            !.header_page_ = T.header_page_,
                                            !.write_set_ = T.write_set_],
               !.model = IF T.op = "insert" /\ ret THEN [W.model EXCEPT ![T.key] = T.value]
                         ELSE IF T.op = "remove" THEN [W.model EXCEPT ![T.key] = 0]
                         ELSE W.model]

\* a write through context->header_page_ when the optional is empty is undefined
SetRoot(W, t, new_root_id) ==
  [W EXCEPT !.root = new_root_id,
            !.ub = W.ub \/ ~W.th[t].header_page_]

\* ---------------------------------------------------------------- insert
StartNewTree(W, t) ==
  LET T == W.th[t]
      new_root_id == NewPage(W)
      root_leaf == LeafInsert(LeafInit(leaf_max_size + 1), T.key, T.value)
      W1 == SetRoot(StorePage(W, t, new_root_id, root_leaf), t, new_root_id)
  IN [W1 EXCEPT !.th[t].root_page_id_ = new_root_id,
                !.th[t].header_page_ = FALSE]

\* CreateNewRoot that puts the new page before the old root
CreateNewRootRightFirst(W, t, separator_key, left_page_id, right_page_id) ==
  LET new_root_id == NewPage(W)
      new_root == [InternalInit(internal_max_size + 1) EXCEPT
                     !.keys = <<INVALID_KEY, separator_key>>,
                     !.vals = <<right_page_id, left_page_id>>]
      W1 == SetRoot(StorePage(W, t, new_root_id, new_root), t, new_root_id)
  IN [W1 EXCEPT !.th[t].root_page_id_ = new_root_id]

CreateNewRoot(W, t, separator_key, left_page_id, right_page_id) ==
  LET new_root_id == NewPage(W)
      new_root == [InternalInit(internal_max_size + 1) EXCEPT
                     !.keys = <<INVALID_KEY, separator_key>>,
                     !.vals = <<left_page_id, right_page_id>>]
      W1 == SetRoot(StorePage(W, t, new_root_id, new_root), t, new_root_id)
  IN [W1 EXCEPT !.th[t].root_page_id_ = new_root_id]

RECURSIVE InsertIntoParent(_, _, _, _, _)
\* returns the world and the middle key
RECURSIVE SplitInternal(_, _, _)
SplitInternal(W, t, internal_id) ==
  LET new_page_id == NewPage(W)
      moved == InternalMoveHalfTo(W.pages[internal_id], InternalInit(internal_max_size + 1))
      W1 == StorePage([W EXCEPT !.pages[internal_id] = moved.self], t, new_page_id, moved.recipient)
  IN [world |-> IF IsRootPage(W.th[t], internal_id)
                THEN CreateNewRoot(W1, t, moved.middle_key, internal_id, new_page_id)
                ELSE InsertIntoParent(W1, t, moved.middle_key, internal_id, new_page_id),
      middle_key |-> moved.middle_key]

\* InsertIntoParent that splits a parent which has room for one more child
InsertIntoParentSplitsEarly(W, t, separator_key, left_page_id, right_page_id) ==
  LET T == W.th[t]
      parent_index == Len(T.write_set_) - 2
      parent_id == GuardAt(T, parent_index).pid
      parent == W.pages[parent_id]
  IN IF GetSize(parent) >= GetMaxSize(parent) - 1
     THEN LET split == SplitInternal(W, t, parent_id)
              W1 == split.world
          IN IF separator_key < split.middle_key
             THEN [W1 EXCEPT !.pages[parent_id] =
                     InsertNodeAfter(W1.pages[parent_id], left_page_id, separator_key, right_page_id)]
             ELSE \* write_set_[parent_index + 1] is the guard of the child that
                  \* split; it is written as an InternalPage.  When that child
                  \* is a leaf the store goes through the wrong page layout:
                  \* the entry lands at the slot InsertNodeAfter computes, or
                  \* (confused) behind the leaf's entries.
                  LET new_parent_id == GuardAt(T, parent_index + 1).pid
                      new_parent == W1.pages[new_parent_id]
                  IN IF new_parent.type = "internal"
                     THEN [W1 EXCEPT !.pages[new_parent_id] =
                             InsertNodeAfter(new_parent, left_page_id, separator_key, right_page_id)]
                     ELSE [W1 EXCEPT !.pages[new_parent_id] =
                             InsertNodeAfter(new_parent, left_page_id, separator_key, right_page_id),
                                     !.confused =
                                       <<new_parent_id,
                                         [new_parent EXCEPT !.keys = Append(@, separator_key),
                                                            !.vals = Append(@, right_page_id)]>>,
                                     !.ub = TRUE]
     ELSE [W EXCEPT !.pages[parent_id] =
             InsertNodeAfter(parent, left_page_id, separator_key, right_page_id)]

InsertIntoParent(W, t, separator_key, left_page_id, right_page_id) ==
  LET T == W.th[t]
      parent_index == Len(T.write_set_) - 2
      parent_id == GuardAt(T, parent_index).pid
      parent == W.pages[parent_id]
  IN IF GetSize(parent) = GetMaxSize(parent)
     THEN LET split == SplitInternal(W, t, parent_id)
              W1 == split.world
          IN IF separator_key < split.middle_key
             THEN [W1 EXCEPT !.pages[parent_id] =
                     InsertNodeAfter(W1.pages[parent_id], left_page_id, separator_key, right_page_id)]
             ELSE \* write_set_[parent_index + 1] is the guard of the child that
                  \* split; it is written as an InternalPage.  When that child
                  \* is a leaf the store goes through the wrong page layout:
                  \* the entry lands at the slot InsertNodeAfter computes, or
                  \* (confused) behind the leaf's entries.
                  LET new_parent_id == GuardAt(T, parent_index + 1).pid
                      new_parent == W1.pages[new_parent_id]
                  IN IF new_parent.type = "internal"
                     THEN [W1 EXCEPT !.pages[new_parent_id] =
                             InsertNodeAfter(new_parent, left_page_id, separator_key, right_page_id)]
                     ELSE [W1 EXCEPT !.pages[new_parent_id] =
                             InsertNodeAfter(new_parent, left_page_id, separator_key, right_page_id),
                                     !.confused =
                                       <<new_parent_id,
                                         [new_parent EXCEPT !.keys = Append(@, separator_key),
                                                            !.vals = Append(@, right_page_id)]>>,
                                     !.ub = TRUE]
     ELSE [W EXCEPT !.pages[parent_id] =
             InsertNodeAfter(parent, left_page_id, separator_key, right_page_id)]

SplitLeaf(W, t, leaf_id) ==
  LET new_page_id == NewPage(W)
      leaf0 == W.pages[leaf_id]
      new_leaf0 == [LeafInit(leaf_max_size + 1) EXCEPT !.next = leaf0.next]
      leaf1 == [leaf0 EXCEPT !.next = new_page_id]
      moved == LeafMoveHalfTo(leaf1, new_leaf0, new_page_id)
      separator_key == KeyAt(moved.recipient, 0)
      W1 == StorePage([W EXCEPT !.pages[leaf_id] = moved.self], t, new_page_id, moved.recipient)
  IN IF IsRootPage(W.th[t], leaf_id)
     THEN CreateNewRoot(W1, t, separator_key, leaf_id, new_page_id)
     ELSE InsertIntoParent(W1, t, separator_key, leaf_id, new_page_id)

\* Insert without the duplicate check of step 5
InsertAtLeafNoLookup(W, t) ==
  LET T == W.th[t]
      leaf_id == BackPid(T)
      leaf == W.pages[leaf_id]
      W1 == [W EXCEPT !.pages[leaf_id] = LeafInsert(leaf, T.key, T.value)]
      W2 == IF GetSize(W1.pages[leaf_id]) > GetMaxSize(W1.pages[leaf_id])
            THEN SplitLeaf(W1, t, leaf_id)
            ELSE W1
  IN Return([W2 EXCEPT !.th[t] = ReleaseContext(W2.th[t])], t, TRUE, 0)

\* steps 5-7 of Insert, once the leaf is latched
\* InsertAtLeaf that splits the leaf as soon as it is full
InsertAtLeafSplitsFull(W, t) ==
  LET T == W.th[t]
      leaf_id == BackPid(T)
      leaf == W.pages[leaf_id]
  IN IF LeafLookup(leaf, T.key).found
     THEN Return([W EXCEPT !.th[t] = ReleaseContext(T)], t, FALSE, 0)
     ELSE LET W1 == [W EXCEPT !.pages[leaf_id] = LeafInsert(leaf, T.key, T.value)]
              W2 == IF GetSize(W1.pages[leaf_id]) >= GetMaxSize(W1.pages[leaf_id])
                    THEN SplitLeaf(W1, t, leaf_id)
                    ELSE W1
          IN Return([W2 EXCEPT !.th[t] = ReleaseContext(W2.th[t])], t, TRUE, 0)

InsertAtLeaf(W, t) ==
  LET T == W.th[t]
      leaf_id == BackPid(T)
      leaf == W.pages[leaf_id]
  IN IF LeafLookup(leaf, T.key).found
     THEN Return([W EXCEPT !.th[t] = ReleaseContext(T)], t, FALSE, 0)
     ELSE LET W1 == [W EXCEPT !.pages[leaf_id] = LeafInsert(leaf, T.key, T.value)]
              W2 == IF GetSize(W1.pages[leaf_id]) > GetMaxSize(W1.pages[leaf_id])
                    THEN SplitLeaf(W1, t, leaf_id)
                    ELSE W1
          IN Return([W2 EXCEPT !.th[t] = ReleaseContext(W2.th[t])], t, TRUE, 0)

\* ---------------------------------------------------------------- remove
DropGuardAt(T, idx) == [T EXCEPT !.write_set_[idx + 1].held = FALSE]

\* AdjustRoot that treats an internal root with one child like an empty leaf
AdjustRootEmptiesTree(W, t) ==
  LET T == W.th[t]
      root_id == GuardAt(T, 0).pid
      root == W.pages[root_id]
  IN IF GetSize(root) = (IF IsLeafPage(root) THEN 0 ELSE 1)
     THEN LET W1 == SetRoot(W, t, INVALID_PAGE_ID)
          IN DeletePage([W1 EXCEPT !.th[t] = DropGuardAt(T, 0)], root_id)
     ELSE W

\* AdjustRoot that deletes a leaf root whether or not it is empty
AdjustRootDropsLeaf(W, t) ==
  LET T == W.th[t]
      root_id == GuardAt(T, 0).pid
      root == W.pages[root_id]
  IN IF IsLeafPage(root)
     THEN LET W1 == SetRoot(W, t, INVALID_PAGE_ID)
          IN DeletePage([W1 EXCEPT !.th[t] = DropGuardAt(T, 0)], root_id)
     ELSE IF GetSize(root) = 1
          THEN LET new_root_id == RemoveAndReturnOnlyChild(root).only_child
                   W1 == SetRoot(W, t, new_root_id)
               IN DeletePage([W1 EXCEPT !.th[t] = [DropGuardAt(T, 0) EXCEPT !.root_page_id_ = new_root_id]],
                             root_id)
          ELSE W

AdjustRoot(W, t) ==
  LET T == W.th[t]
      root_id == GuardAt(T, 0).pid
      root == W.pages[root_id]
  IN IF IsLeafPage(root)
     THEN IF GetSize(root) = 0
          THEN LET W1 == SetRoot(W, t, INVALID_PAGE_ID)
               IN DeletePage([W1 EXCEPT !.th[t] = DropGuardAt(T, 0)], root_id)
          ELSE W
     ELSE IF GetSize(root) = 1
          THEN LET new_root_id == RemoveAndReturnOnlyChild(root).only_child
                   W1 == SetRoot(W, t, new_root_id)
               IN DeletePage([W1 EXCEPT !.th[t] = [DropGuardAt(T, 0) EXCEPT !.root_page_id_ = new_root_id]],
                             root_id)
          ELSE W

\* Remove, step 7
FinishRemove(W, t) == Return([W EXCEPT !.th[t] = ReleaseContext(W.th[t])], t, TRUE, 0)

\* CoalesceOrRedistribute that tries the right sibling first
CoalesceOrRedistributeRightFirst(W, t, node_index) ==
  LET T == W.th[t]
      node_id == GuardAt(T, node_index).pid
      parent == W.pages[GuardAt(T, node_index - 1).pid]
      node_pos == ValueIndex(parent, node_id)
  IN IF node_pos < GetSize(parent) - 1
     THEN [W EXCEPT !.th[t].pc = "sibling", !.th[t].node_index = node_index,
                    !.th[t].want = ValueAt(parent, node_pos + 1)]
     ELSE IF node_pos > 0
     THEN [W EXCEPT !.th[t].pc = "sibling", !.th[t].node_index = node_index,
                    !.th[t].want = ValueAt(parent, node_pos - 1)]
     ELSE FinishRemove(W, t)

\* CoalesceOrRedistribute up to the request for the sibling's latch; a
\* node_guard that Coalesce has dropped is of no page, and what is read
\* through it is undefined
CoalesceOrRedistribute(W, t, node_index) ==
  LET T == W.th[t]
      node_id == GuardAt(T, node_index).pid
      parent == W.pages[GuardAt(T, node_index - 1).pid]
      node_pos == ValueIndex(parent, node_id)
  IN IF ~GuardAt(T, node_index).held
     THEN FinishRemove([W EXCEPT !.ub = TRUE], t)
     ELSE IF node_pos > 0
     THEN [W EXCEPT !.th[t].pc = "sibling", !.th[t].node_index = node_index,
                    !.th[t].want = ValueAt(parent, node_pos - 1)]
     ELSE IF node_pos < GetSize(parent) - 1
     THEN [W EXCEPT !.th[t].pc = "sibling", !.th[t].node_index = node_index,
                    !.th[t].want = ValueAt(parent, node_pos + 1)]
     ELSE FinishRemove(W, t)

Redistribute(W, parent_id, node_pos, node_id, sibling_id, from_left) ==
  LET parent == W.pages[parent_id]
      node == W.pages[node_id]
      sibling == W.pages[sibling_id]
  IN IF from_left
     THEN LET moved == IF IsLeafPage(node)
                       THEN LeafMoveLastToFrontOf(sibling, node)
                       ELSE InternalMoveLastToFrontOf(sibling, node, KeyAt(parent, node_pos))
          IN [W EXCEPT !.pages[sibling_id] = moved.self,
                       !.pages[node_id] = moved.recipient,
                       !.pages[parent_id] = SetKeyAt(parent, node_pos, KeyAt(moved.recipient, 0))]
     ELSE LET moved == IF IsLeafPage(node)
                       THEN LeafMoveFirstToEndOf(sibling, node)
                       ELSE InternalMoveFirstToEndOf(sibling, node, KeyAt(parent, node_pos + 1))
          IN [W EXCEPT !.pages[sibling_id] = moved.self,
                       !.pages[node_id] = moved.recipient,
                       !.pages[parent_id] = SetKeyAt(parent, node_pos + 1, KeyAt(moved.self, 0))]

\* the merge of Coalesce, before its check of the parent
CoalescePages(W, t, parent_id, node_pos, node_index, sibling_id, merge_with_left) ==
  LET T == W.th[t]
      node_id == GuardAt(T, node_index).pid
      parent == W.pages[parent_id]
      node == W.pages[node_id]
      sibling == W.pages[sibling_id]
  IN IF merge_with_left
     THEN LET moved == IF IsLeafPage(node)
                       THEN LeafMoveAllTo(node, sibling)
                       ELSE InternalMoveAllTo(node, sibling, KeyAt(parent, node_pos))
              W1 == [W EXCEPT !.pages[node_id] = moved.self,
                              !.pages[sibling_id] = moved.recipient,
                              !.pages[parent_id] = InternalRemove(parent, node_pos),
                              !.th[t] = DropGuardAt(T, node_index)]
          IN DeletePage(W1, node_id)
     ELSE LET moved == IF IsLeafPage(node)
                       THEN LeafMoveAllTo(sibling, node)
                       ELSE InternalMoveAllTo(sibling, node, KeyAt(parent, node_pos + 1))
              W1 == [W EXCEPT !.pages[sibling_id] = moved.self,
                              !.pages[node_id] = moved.recipient,
                              !.pages[parent_id] = InternalRemove(parent, node_pos + 1),
                              !.th[t].siblings = SubSeq(T.siblings, 1, Len(T.siblings) - 1)]
          IN DeletePage(W1, sibling_id)

\* Coalesce that leaves the parent as the merge made it
CoalesceNoParentCheck(W, t, parent_id, node_pos, node_index, sibling_id, merge_with_left) ==
  FinishRemove(CoalescePages(W, t, parent_id, node_pos, node_index, sibling_id, merge_with_left), t)

Coalesce(W, t, parent_id, node_pos, node_index, sibling_id, merge_with_left) ==
  LET W1 == CoalescePages(W, t, parent_id, node_pos, node_index, sibling_id, merge_with_left)
      parent == W1.pages[parent_id]
      parent_index == Len(W1.th[t].write_set_) - 2
  IN IF GetSize(parent) < GetMinSize(parent)
     THEN IF IsRootPage(W1.th[t], parent_id)
          THEN FinishRemove(AdjustRoot(W1, t), t)
          ELSE CoalesceOrRedistribute(W1, t, parent_index)
     ELSE FinishRemove(W1, t)

\* CoalesceOrRedistribute from the moment the sibling's latch is granted
WithSibling(W, t) ==
  LET T == W.th[t]
      sibling_id == T.want
      node_index == T.node_index
      node_id == GuardAt(T, node_index).pid
      parent_id == GuardAt(T, node_index - 1).pid
      node_pos == ValueIndex(W.pages[parent_id], node_id)
      from_left == node_pos > 0
      sibling == W.pages[sibling_id]
      W1 == [W EXCEPT !.th[t].siblings = Append(T.siblings, sibling_id)]
  IN IF GetSize(sibling) > GetMinSize(sibling)
     THEN FinishRemove(Redistribute(W1, parent_id, node_pos, node_id, sibling_id, from_left), t)
     ELSE Coalesce(W1, t, parent_id, node_pos, node_index, sibling_id, from_left)

\* Remove that takes the lower bound for the key without comparing it
RemoveAtLeafNoCompare(W, t) ==
  LET T == W.th[t]
      leaf_id == BackPid(T)
      leaf == W.pages[leaf_id]
      index == LowerBound(leaf, T.key)
  IN IF index >= GetSize(leaf)
     THEN Return([W EXCEPT !.th[t] = ReleaseContext(T)], t, FALSE, 0)
     ELSE LET W1 == [W EXCEPT !.pages[leaf_id] = RemoveAt(leaf, index)]
          IN IF GetSize(W1.pages[leaf_id]) < GetMinSize(W1.pages[leaf_id])
             THEN IF IsRootPage(T, leaf_id)
                  THEN FinishRemove(AdjustRoot(W1, t), t)
                  ELSE CoalesceOrRedistribute(W1, t, Len(T.write_set_) - 1)
             ELSE FinishRemove(W1, t)

\* steps 3-7 of Remove, once the leaf is latched
RemoveAtLeaf(W, t) ==
  LET T == W.th[t]
      leaf_id == BackPid(T)
      leaf == W.pages[leaf_id]
      index == LowerBound(leaf, T.key)
  IN IF index >= GetSize(leaf) \/ KeyAt(leaf, index) # T.key
     THEN Return([W EXCEPT !.th[t] = ReleaseContext(T)], t, FALSE, 0)
     ELSE LET W1 == [W EXCEPT !.pages[leaf_id] = RemoveAt(leaf, index)]
          IN IF GetSize(W1.pages[leaf_id]) < GetMinSize(W1.pages[leaf_id])
             THEN IF IsRootPage(T, leaf_id)
                  THEN FinishRemove(AdjustRoot(W1, t), t)
                  ELSE CoalesceOrRedistribute(W1, t, Len(T.write_set_) - 1)
             ELSE FinishRemove(W1, t)

\* ------------------------------------------------- descent (8.3, 5.6.1)
\* after a write guard was pushed: the loop test of step 4
AfterPush(W, t) ==
  LET T == W.th[t]
      current == W.pages[BackPid(T)]
  IN IF IsLeafPage(current)
     THEN [W EXCEPT !.th[t].pc = "leaf", !.th[t].want = INVALID_PAGE_ID]
     ELSE [W EXCEPT !.th[t].pc = "child", !.th[t].want = InternalLookup(current, T.key)]

\* GetValue after current_guard was assigned
AfterRead(W, t) ==
  LET T == W.th[t]
      current_page == W.pages[T.read_guard]
  IN IF IsLeafPage(current_page)
     THEN [W EXCEPT !.th[t].pc = "leaf", !.th[t].want = INVALID_PAGE_ID]
     ELSE [W EXCEPT !.th[t].pc = "child", !.th[t].want = InternalLookup(current_page, T.key)]

\* the work on the latched leaf, up to the return or to the request for a
\* sibling's latch
LeafStep(W, t) ==
  LET T == W.th[t]
  IN IF T.op = "insert" THEN InsertAtLeaf(W, t)
     ELSE IF T.op = "remove" THEN RemoveAtLeaf(W, t)
     ELSE LET r == LeafLookup(W.pages[T.read_guard], T.key) IN Return(W, t, r.found, r.value)

\* Insert and Remove that go on to a FindLeaf which latches the header itself
HeaderStepLatchesTwice(W, t) ==
  LET T == W.th[t]
  IN IF T.op = "search"
     THEN IF W.root = INVALID_PAGE_ID
          THEN Return(W, t, FALSE, 0)
          ELSE [W EXCEPT !.th[t].header_read = TRUE, !.th[t].pc = "root", !.th[t].want = W.root]
     ELSE IF W.root = INVALID_PAGE_ID
     THEN IF T.op = "insert"
          THEN Return(StartNewTree([W EXCEPT !.th[t].header_page_ = TRUE,
                                             !.th[t].root_page_id_ = W.root], t), t, TRUE, 0)
          ELSE Return(W, t, FALSE, 0)
     ELSE [W EXCEPT !.th[t].header_page_ = TRUE, !.th[t].root_page_id_ = W.root,
                    !.th[t].pc = "header", !.th[t].want = HEADER_PAGE_ID]

\* the latch on the header is granted
HeaderStep(W, t) ==
  LET T == W.th[t]
  IN IF T.op = "search"
     THEN IF W.root = INVALID_PAGE_ID
          THEN Return(W, t, FALSE, 0)
          ELSE [W EXCEPT !.th[t].header_read = TRUE, !.th[t].pc = "root", !.th[t].want = W.root]
     ELSE IF T.op = "insert"
     THEN LET W1 == [W EXCEPT !.th[t].header_page_ = TRUE, !.th[t].root_page_id_ = W.root]
          IN IF W.root = INVALID_PAGE_ID
             THEN \* 5.4.1 calls StartNewTree while the header guard is still in
                  \* the local header_guard and context.header_page_ is empty;
                  \* 8.3 has stored it in the context before
                  Return(StartNewTree(IF latch_coupling = "basic" THEN W ELSE W1, t), t, TRUE, 0)
             ELSE [W1 EXCEPT !.th[t].pc = "root", !.th[t].want = W.root]
     ELSE IF W.root = INVALID_PAGE_ID
          THEN \* 5.5.1 returns with the header guard in a local; 12.2 has moved it
               \* into the Context it allocated with new, which nothing destroys
               IF latch_coupling = "section12"
               THEN Return([W EXCEPT !.th[t].header_page_ = TRUE], t, FALSE, 0)
               ELSE Return(W, t, FALSE, 0)
          ELSE [W EXCEPT !.th[t].header_page_ = TRUE, !.th[t].root_page_id_ = W.root,
                         !.th[t].pc = "root", !.th[t].want = W.root]

\* a descent that gives up the header once the root is latched, safe or not
RootStepDropsHeader(W, t) ==
  LET T == W.th[t]
  IN IF T.op = "search"
     THEN AfterRead([W EXCEPT !.th[t].read_guard = T.want], t)
     ELSE AfterPush([W EXCEPT !.th[t].header_page_ = FALSE,
                              !.th[t].write_set_ = <<Guard(T.want)>>], t)

\* the latch on the root page is granted
RootStep(W, t) ==
  LET T == W.th[t]
  IN IF T.op = "search"
     THEN AfterRead([W EXCEPT !.th[t].read_guard = T.want], t)
     ELSE AfterPush([W EXCEPT !.th[t].header_page_ =
                                 IF latch_coupling # "basic" /\ IsSafeNode(W.pages[T.want], T.op)
                                 THEN FALSE ELSE T.header_page_,
                              !.th[t].write_set_ = <<Guard(T.want)>>], t)

\* the ancestors kept when a safe child is found: pop_front while
\* size > 0 (7.3) or while size > 1 (8.3)
KeepAncestors(write_set) ==
  IF latch_coupling # "optimistic" /\ Len(write_set) > 1
  THEN SubSeq(write_set, Len(write_set), Len(write_set))
  ELSE IF latch_coupling # "optimistic" THEN write_set
  ELSE <<>>

\* a search that tracks its path as FindLeaf does: the parent's guard is
\* moved to the Context instead of being released
ChildStepKeepsPath(W, t) ==
  LET T == W.th[t]
  IN IF T.op = "search"
     THEN AfterRead([W EXCEPT !.th[t].write_set_ = Append(T.write_set_, Guard(T.read_guard)),
                              !.th[t].read_guard = T.want], t)
     ELSE IF IsSafeNode(W.pages[T.want], T.op)
          THEN AfterPush([W EXCEPT !.th[t].header_page_ =
                                     IF latch_coupling # "optimistic" THEN FALSE ELSE T.header_page_,
                                   !.th[t].write_set_ = Append(KeepAncestors(T.write_set_), Guard(T.want))], t)
          ELSE AfterPush([W EXCEPT !.th[t].write_set_ = Append(T.write_set_, Guard(T.want))], t)

\* the latch on a child page is granted
ChildStep(W, t) ==
  LET T == W.th[t]
  IN IF T.op = "search"
     THEN AfterRead([W EXCEPT !.th[t].read_guard = T.want], t)
     ELSE IF latch_coupling # "basic" /\ IsSafeNode(W.pages[T.want], T.op)
          THEN AfterPush([W EXCEPT !.th[t].header_page_ =
                                     IF latch_coupling # "optimistic" THEN FALSE ELSE T.header_page_,
                                   !.th[t].write_set_ = Append(KeepAncestors(T.write_set_), Guard(T.want))], t)
          ELSE AfterPush([W EXCEPT !.th[t].write_set_ = Append(T.write_set_, Guard(T.want))], t)

\* ReadPage that does not wait for the writer of the page
GrantedUnlatchedRead(W, t) ==
  LET T == W.th[t]
  IN CASE T.pc = "header" -> IF T.op = "search" THEN CanReadPage(W, HEADER_PAGE_ID)
                                                ELSE CanWritePage(W, HEADER_PAGE_ID)
       [] T.pc \in {"root", "child"} -> IF T.op = "search" THEN TRUE
                                                           ELSE CanWritePage(W, T.want)
       [] T.pc = "sibling" -> CanWritePage(W, T.want)
       [] T.pc = "leaf" -> TRUE
       [] OTHER -> FALSE

\* the request a thread is blocked on can be granted
Granted(W, t) ==
  LET T == W.th[t]
  IN CASE T.pc = "header" -> IF T.op = "search" THEN CanReadPage(W, HEADER_PAGE_ID)
                                                ELSE CanWritePage(W, HEADER_PAGE_ID)
       [] T.pc \in {"root", "child"} -> IF T.op = "search" THEN CanReadPage(W, T.want)
                                                           ELSE CanWritePage(W, T.want)
       [] T.pc = "sibling" -> CanWritePage(W, T.want)
       [] T.pc = "leaf" -> TRUE
       [] OTHER -> FALSE

StepOnce(W, t) ==
  LET T == W.th[t]
  IN CASE T.pc = "header" -> HeaderStep(W, t)
       [] T.pc = "root" -> RootStep(W, t)
       [] T.pc = "child" -> ChildStep(W, t)
       [] T.pc = "sibling" -> WithSibling(W, t)
       [] T.pc = "leaf" -> LeafStep(W, t)

Call(W, t, op, key, value) ==
  [W EXCEPT !.th[t] = [W.th[t] EXCEPT !.pc = "header", !.op = op, !.key = key, !.value = value,
                                      !.want = HEADER_PAGE_ID, !.was = W.model[key]]]

\* a call run alone until it returns (or blocks on a latch for ever)
RECURSIVE RunCall(_, _, _)
RunCall(W, t, fuel) ==
  IF W.th[t].pc = "returned" \/ fuel = 0 \/ ~Granted(W, t)
  THEN W
  ELSE RunCall(StepOnce(W, t), t, fuel - 1)

\* ------------------------------------------------------------- iterator
\* IndexIterator(): the end iterator; guard_ is the page id its ReadPageGuard
\* holds, INVALID_PAGE_ID for an invalid guard
EndIterator == [bpm_ |-> "nullptr", guard_ |-> INVALID_PAGE_ID, index_ |-> 0, is_end_ |-> TRUE]

\* IndexIterator(bpm, guard, index, is_end)
IndexIterator(guard, index, is_end) ==
  [bpm_ |-> "bpm_", guard_ |-> guard, index_ |-> index, is_end_ |-> is_end]

\* no iterator was obtained from the tree
NoWalk == [from |-> "none", key |-> 0, steps |-> 0]

\* ----------------------------------------------------------- state machine
World == [pages |-> pages, root |-> root_page_id, th |-> th, model |-> model, ub |-> ub,
          confused |-> <<>>]

\* the page contents a step can leave behind: one, unless it stored through
\* the wrong page layout
Outcomes(W) ==
  IF W.confused = <<>> THEN {W.pages}
  ELSE {W.pages, [W.pages EXCEPT ![W.confused[1]] = W.confused[2]]}

Install(W) ==
  /\ pages' \in Outcomes(W)
  /\ root_page_id' = W.root
  /\ th' = W.th
  /\ model' = W.model
  /\ ub' = W.ub

Configs == {<<2, 3>>, <<3, 4>>}

Couplings == {"optimistic", "complete"}

Init ==
  /\ Unmounted
  /\ \E c \in Configs : leaf_max_size = c[1] /\ internal_max_size = c[2]
  /\ latch_coupling \in Couplings
  /\ pages = Pool(TreeShare)
  /\ root_page_id = INVALID_PAGE_ID
  /\ th = [t \in Threads |-> NewContext]
  /\ model = [k \in Keys |-> 0]
  /\ ub = FALSE
  /\ nops = 0
  /\ it = EndIterator
  /\ script = -1
  /\ walk = NoWalk

\* no call is started once the program has run into undefined behaviour
AllIdle == ~ub /\ \A t \in Threads : th[t].pc = "idle"

CanAllocate == Cardinality(FreeIds(World)) >= AllocReserve * (1 + Cardinality({t \in Threads : th[t].op = "insert"}))

\* single-threaded calls: the whole call is one step
Insert(key, value) ==
  /\ AllIdle
  /\ CanAllocate
  /\ Install(RunCall(Call(World, 1, "insert", key, value), 1, RunFuel))
  /\ UNCHANGED <<config, route, nops, aux>>

Remove(key) ==
  /\ AllIdle
  /\ Install(RunCall(Call(World, 1, "remove", key, 0), 1, RunFuel))
  /\ UNCHANGED <<config, route, nops, aux>>

GetValue(key) ==
  /\ AllIdle
  /\ Install(RunCall(Call(World, 1, "search", key, 0), 1, RunFuel))
  /\ UNCHANGED <<config, route, nops, aux>>

\* the caller takes the result of a returned call
Resume(t) ==
  /\ th[t].pc = "returned"
  /\ th' = [th EXCEPT ![t] = [NewContext EXCEPT !.header_page_ = th[t].header_page_,
                                                !.write_set_ = th[t].write_set_]]
  /\ UNCHANGED <<config, route, pages, root_page_id, model, ub, nops, aux>>

Next ==
  \/ \E key \in Keys : \E value \in RIDs(key) : Insert(key, value)
  \/ \E key \in Keys : Remove(key)
  \/ \E key \in Keys : GetValue(key)
  \/ Resume(1)

Spec == Init /\ [][Next]_vars

\* single-threaded calls of the build of section 12
InitSection12 ==
  /\ Unmounted
  /\ \E c \in Configs : leaf_max_size = c[1] /\ internal_max_size = c[2]
  /\ latch_coupling = "section12"
  /\ pages = Pool(TreeShare)
  /\ root_page_id = INVALID_PAGE_ID
  /\ th = [t \in Threads |-> NewContext]
  /\ model = [k \in Keys |-> 0]
  /\ ub = FALSE
  /\ nops = 0
  /\ it = EndIterator
  /\ script = -1
  /\ walk = NoWalk

SpecSection12 == InitSection12 /\ [][Next]_vars

\* the worked scenario: leaf and internal max size 4, the keys 10 to 40
ScenarioKeys == {10, 20, 25, 30, 40}

ScenarioScript ==
  << <<"insert", 10>>, <<"insert", 20>>, <<"insert", 30>>, <<"insert", 40>>, <<"insert", 25>>,
     <<"remove", 40>>, <<"remove", 30>> >>

Followed(op, key) ==
  IF script >= 0 /\ script < Len(ScenarioScript) /\ ScenarioScript[script + 1] = <<op, key>>
  THEN script + 1
  ELSE -1

InitScenario ==
  /\ Unmounted
  /\ leaf_max_size = 4
  /\ internal_max_size = 4
  /\ latch_coupling \in Couplings
  /\ pages = Pool(TreeShare)
  /\ root_page_id = INVALID_PAGE_ID
  /\ th = [t \in Threads |-> NewContext]
  /\ model = [k \in ScenarioKeys |-> 0]
  /\ ub = FALSE
  /\ nops = 0
  /\ it = EndIterator
  /\ script = 0
  /\ walk = NoWalk

ScenarioInsert(key) ==
  /\ AllIdle
  /\ CanAllocate
  /\ Install(RunCall(Call(World, 1, "insert", key, 100 + key), 1, RunFuel))
  /\ script' = Followed("insert", key)
  /\ UNCHANGED <<config, route, nops, it, walk>>

ScenarioRemove(key) ==
  /\ AllIdle
  /\ Install(RunCall(Call(World, 1, "remove", key, 0), 1, RunFuel))
  /\ script' = Followed("remove", key)
  /\ UNCHANGED <<config, route, nops, it, walk>>

NextScenario ==
  \/ \E key \in ScenarioKeys : ScenarioInsert(key)
  \/ \E key \in ScenarioKeys : ScenarioRemove(key)
  \/ \E key \in ScenarioKeys : GetValue(key)
  \/ Resume(1)

SpecScenario == InitScenario /\ [][NextScenario]_vars

\* concurrent calls: a thread takes one step per latch it is granted
Begin(t, op, key, value) ==
  /\ th[t].pc = "idle"
  /\ ~ub
  /\ nops < MaxOps
  /\ op = "insert" => CanAllocate
  /\ Install(Call(World, t, op, key, value))
  /\ nops' = nops + 1
  /\ UNCHANGED <<config, route, aux>>

Step(t) ==
  /\ th[t].pc \notin {"idle", "returned"}
  /\ Granted(World, t)
  /\ Install(StepOnce(World, t))
  /\ UNCHANGED <<config, route, nops, aux>>

NextConc ==
  \/ \E t \in Threads, key \in Keys : \E value \in RIDs(key) : Begin(t, "insert", key, value)
  \/ \E t \in Threads, key \in Keys : Begin(t, "remove", key, 0)
  \/ \E t \in Threads, key \in Keys : Begin(t, "search", key, 0)
  \/ \E t \in Threads : Step(t)
  \/ \E t \in Threads : Resume(t)

\* the trees the concurrent calls start from, each built by single-threaded
\* inserts into the empty tree: <<leaf_max_size, internal_max_size, keys>>
Builds ==
  { <<2, 3, <<>>>>,
    <<2, 3, <<1, 4, 5, 6, 2>>>>,
    <<2, 3, <<1, 4, 5, 6, 2, 3>>>>,
    <<3, 4, <<1, 2, 3, 4>>>> }

EmptyWorld ==
  [pages |-> Pool(TreeShare), root |-> INVALID_PAGE_ID,
   th |-> [t \in Threads |-> NewContext], model |-> [k \in Keys |-> 0], ub |-> FALSE,
   confused |-> <<>>]

RECURSIVE Build(_, _)
Build(W, keys) ==
  IF keys = <<>> THEN W
  ELSE LET W1 == RunCall(Call(W, 1, "insert", Head(keys), 100 + Head(keys)), 1, RunFuel)
       IN Build([W1 EXCEPT !.th[1] = NewContext], Tail(keys))

InitConc ==
  \E b \in Builds :
    /\ Unmounted
    /\ leaf_max_size = b[1]
    /\ internal_max_size = b[2]
    /\ latch_coupling \in Couplings
    /\ LET W == Build(EmptyWorld, b[3])
       IN /\ pages = W.pages
          /\ root_page_id = W.root
          /\ th = W.th
          /\ model = W.model
          /\ ub = W.ub
    /\ nops = 0
    /\ it = EndIterator
    /\ script = -1
    /\ walk = NoWalk

SpecConc == InitConc /\ [][NextConc]_vars

\* concurrent inserts only, each thread inserting keys of its own
OwnKeys(t) == {key \in Keys : (key % NumThreads) + 1 = t}

NextInserts ==
  \/ \E t \in Threads : \E key \in OwnKeys(t) : \E value \in RIDs(key) : Begin(t, "insert", key, value)
  \/ \E t \in Threads : Step(t)
  \/ \E t \in Threads : Resume(t)

SpecInserts == InitConc /\ [][NextInserts]_vars

\* a buffer pool shared with other users: of the pages the tree does not use
\* the spare lowest ids are free, the others are taken

LeaveFree(ps, spare) ==
  [p \in PageIds |->
     IF ps[p].type = "free" /\ Cardinality({q \in PageIds : q < p /\ ps[q].type = "free"}) >= spare
     THEN OtherPage
     ELSE ps[p]]

InitExhausted ==
  \E b \in Builds : \E spare \in 0..MaxSpare :
    /\ Unmounted
    /\ leaf_max_size = b[1]
    /\ internal_max_size = b[2]
    /\ latch_coupling \in Couplings
    /\ \E W \in {Build(EmptyWorld, b[3])} :
          /\ pages = LeaveFree(W.pages, spare)
          /\ root_page_id = W.root
          /\ th = W.th
          /\ model = W.model
          /\ ub = W.ub
    /\ nops = 0
    /\ it = EndIterator
    /\ script = -1
    /\ walk = NoWalk

\* Insert whatever the number of free pages
InsertUnreserved(key, value) ==
  /\ AllIdle
  /\ Install(RunCall(Call(World, 1, "insert", key, value), 1, RunFuel))
  /\ UNCHANGED <<config, route, nops, aux>>

NextExhausted ==
  \/ \E key \in Keys : \E value \in RIDs(key) : InsertUnreserved(key, value)
  \/ Resume(1)

SpecExhausted == InitExhausted /\ [][NextExhausted]_vars

\* pages initialised as the tree initialises them, for every configured size
InitSizes ==
  /\ Unmounted
  /\ leaf_max_size \in 1..MaxCapacity
  /\ internal_max_size \in 1..MaxCapacity
  /\ latch_coupling = "complete"
  /\ pages = Pool(TreeShare)
  /\ root_page_id = INVALID_PAGE_ID
  /\ th = [t \in Threads |-> NewContext]
  /\ model = [k \in Keys |-> 0]
  /\ ub = FALSE
  /\ nops = 0
  /\ it = EndIterator
  /\ script = -1
  /\ walk = NoWalk

\* new_leaf->Init(leaf_max_size_ + 1) on a new page
NewLeafPage ==
  /\ nops < MaxOps
  /\ pages' = [pages EXCEPT ![NewPage(World)] = LeafInit(leaf_max_size + 1)]
  /\ nops' = nops + 1
  /\ UNCHANGED <<config, route, root_page_id, th, model, ub, aux>>

\* new_internal->Init(internal_max_size_ + 1) on a new page
NewInternalPage ==
  /\ nops < MaxOps
  /\ pages' = [pages EXCEPT ![NewPage(World)] = InternalInit(internal_max_size + 1)]
  /\ nops' = nops + 1
  /\ UNCHANGED <<config, route, root_page_id, th, model, ub, aux>>

NextSizes == NewLeafPage \/ NewInternalPage

SpecSizes == InitSizes /\ [][NextSizes]_vars

\* a tree of three levels: the tree has DeepShare pages and the inserts of a
\* build leave two inner pages under the root; with leaves of one entry they
\* have three and two leaves
DeepBuilds ==
  { <<1, 3, <<3, 4, 5, 1, 2>>>>,
    <<1, 3, <<4, 5, 6, 1, 3>>>>,
    <<2, 3, <<1, 4, 5, 6, 2, 3>>>> }

InitDeep ==
  /\ Unmounted
  /\ latch_coupling \in Couplings
  /\ \E b \in DeepBuilds :
      /\ leaf_max_size = b[1]
      /\ internal_max_size = b[2]
      /\ \E W \in {Build([EmptyWorld EXCEPT !.pages = Pool(DeepShare)], b[3])} :
        /\ pages = W.pages
        /\ root_page_id = W.root
        /\ th = W.th
        /\ model = W.model
        /\ ub = W.ub
  /\ nops = 0
  /\ it = EndIterator
  /\ script = -1
  /\ walk = NoWalk

\* Insert while the pool has the pages a split of two levels takes
DeepInsert(key, value) ==
  /\ AllIdle
  /\ nops < MaxOps
  /\ Cardinality(FreeIds(World)) >= DeepReserve
  /\ \E W \in {RunCall(Call(World, 1, "insert", key, value), 1, RunFuel)} : Install(W)
  /\ nops' = nops + 1
  /\ UNCHANGED <<config, route, aux>>

DeepRemove(key) ==
  /\ AllIdle
  /\ nops < MaxOps
  /\ \E W \in {RunCall(Call(World, 1, "remove", key, 0), 1, RunFuel)} : Install(W)
  /\ nops' = nops + 1
  /\ UNCHANGED <<config, route, aux>>

NextDeep ==
  \/ \E key \in Keys : \E value \in RIDs(key) : DeepInsert(key, value)
  \/ \E key \in Keys : DeepRemove(key)
  \/ Resume(1)

SpecDeep == InitDeep /\ [][NextDeep]_vars

\* an internal page on its own, filled as the page test of 4.4.3 fills it:
\* Init, then InsertAt at the end for the key of index 0 (any key, or none)
\* and for increasing separators
RECURSIVE Ascending(_)
Ascending(S) ==
  IF S = {} THEN <<>>
  ELSE LET least == CHOOSE k \in S : \A j \in S : k <= j
       IN <<least>> \o Ascending(S \ {least})

RECURSIVE FillInternal(_, _)
FillInternal(p, ks) ==
  IF ks = <<>> THEN p
  ELSE FillInternal(InternalInsertAt(p, GetSize(p), Head(ks), GetSize(p) + 2), Tail(ks))

InitLookup ==
  /\ Unmounted
  /\ leaf_max_size = 2
  /\ internal_max_size = MaxSeparators + 1
  /\ latch_coupling \in Couplings
  /\ \E first \in {INVALID_KEY} \cup Keys : \E S \in SUBSET Keys :
        /\ Cardinality(S) <= MaxSeparators
        /\ pages = [Pool(TreeShare) EXCEPT
                      ![1] = FillInternal(InternalInit(internal_max_size + 1), <<first>> \o Ascending(S))]
  /\ root_page_id = 1
  /\ th = [t \in Threads |-> NewContext]
  /\ model = [k \in Keys |-> 0]
  /\ ub = FALSE
  /\ nops = 0
  /\ it = EndIterator
  /\ script = -1
  /\ walk = NoWalk

\* page->Lookup(key, cmp): the result is kept in out
LookupCall(key) ==
  /\ th[1].pc = "idle"
  /\ th' = [th EXCEPT ![1] = [NewContext EXCEPT !.pc = "returned", !.op = "lookup", !.key = key,
                                                 !.out = InternalLookup(pages[1], key)]]
  /\ UNCHANGED <<config, route, pages, root_page_id, model, ub, nops, aux>>

NextLookup == (\E key \in Keys : LookupCall(key)) \/ Resume(1)

SpecLookup == InitLookup /\ [][NextLookup]_vars

\* internal pages of two children: GetMinSize is 1.  The trees [1] | [2] and
\* [1][2] | [3] with leaves of one entry, [1] | [2 3] with leaves of two
NarrowBuilds ==
  { <<1, 2, <<1, 2>>>>,
    <<1, 2, <<2, 3, 1>>>>,
    <<2, 2, <<1, 2, 3>>>> }

InitNarrow ==
  /\ Unmounted
  /\ latch_coupling \in Couplings
  /\ \E b \in NarrowBuilds :
      /\ leaf_max_size = b[1]
      /\ internal_max_size = b[2]
      /\ \E W \in {Build(EmptyWorld, b[3])} :
        /\ pages = W.pages
        /\ root_page_id = W.root
        /\ th = W.th
        /\ model = W.model
        /\ ub = W.ub
  /\ nops = 0
  /\ it = EndIterator
  /\ script = -1
  /\ walk = NoWalk

SpecNarrow == InitNarrow /\ [][NextDeep]_vars

\* a tree of four levels, the input of a Remove whose underflow goes up three
\* levels: leaves of one entry (ids 1 to 8, the keys 1 to 8), internal pages
\* of at most three children, every page at GetMinSize.  The pages that are
\* not leftmost under their parent keep their separator at index 0, as
\* MoveHalfTo leaves it
TallKeys == 1..MaxTallKey

TallLeaf(key) ==
  [LeafInit(2) EXCEPT !.keys = <<key>>, !.vals = <<100 + key>>,
                      !.next = IF key < 8 THEN key + 1 ELSE INVALID_PAGE_ID]

TallInternal(key0, left, key1, right) ==
  [InternalInit(4) EXCEPT !.keys = <<key0, key1>>, !.vals = <<left, right>>]

TallPages ==
  [p \in PageIds |->
     CASE p <= 8 -> TallLeaf(p)
       [] p = 9 -> TallInternal(INVALID_KEY, 1, 2, 2)
       [] p = 10 -> TallInternal(3, 3, 4, 4)
       [] p = 11 -> TallInternal(5, 5, 6, 6)
       [] p = 12 -> TallInternal(7, 7, 8, 8)
       [] p = 13 -> TallInternal(INVALID_KEY, 9, 3, 10)
       [] p = 14 -> TallInternal(5, 11, 7, 12)
       [] p = 15 -> TallInternal(INVALID_KEY, 13, 5, 14)
       [] OTHER -> OtherPage]

InitTall ==
  /\ Unmounted
  /\ leaf_max_size = 1
  /\ internal_max_size = 3
  /\ latch_coupling \in Couplings
  /\ pages = TallPages
  /\ root_page_id = 15
  /\ th = [t \in Threads |-> NewContext]
  /\ model = [k \in TallKeys |-> IF k <= 8 THEN 100 + k ELSE 0]
  /\ ub = FALSE
  /\ nops = 0
  /\ it = EndIterator
  /\ script = -1
  /\ walk = NoWalk

NextTall ==
  \/ \E t \in Threads, key \in TallKeys : Begin(t, "remove", key, 0)
  \/ \E t \in Threads, key \in TallKeys : Begin(t, "search", key, 0)
  \/ \E t \in Threads : Step(t)
  \/ \E t \in Threads : Resume(t)

SpecTall == InitTall /\ [][NextTall]_vars

\* threads inserting keys of their own into an empty tree, through the Insert
\* of 5.4.1 or that of 8.3
InsertVariants == {"basic", "complete"}

InitFirst ==
  /\ Unmounted
  /\ \E c \in Configs : leaf_max_size = c[1] /\ internal_max_size = c[2]
  /\ latch_coupling \in InsertVariants
  /\ pages = EmptyWorld.pages
  /\ root_page_id = INVALID_PAGE_ID
  /\ th = EmptyWorld.th
  /\ model = EmptyWorld.model
  /\ ub = FALSE
  /\ nops = 0
  /\ it = EndIterator
  /\ script = -1
  /\ walk = NoWalk

SpecFirst == InitFirst /\ [][NextInserts]_vars

\* the calls of SpecConc under a fair scheduler: a thread whose next step can
\* be taken (it is inside a call and the latch it asks for is available) is
\* not passed over for ever; the callers need not call or resume. This is
\* WF_vars(Step(t)) with ENABLED <<Step(t)>>_vars written as the guard of Step
Schedulable(t) == th[t].pc \notin {"idle", "returned"} /\ Granted(World, t)

SpecLive ==
  /\ InitConc
  /\ [][NextConc]_vars
  /\ \A t \in Threads : []<>(~Schedulable(t)) \/ []<><<Step(t)>>_vars

\* ------------------------------------------------------------ observers
\* no call is in progress
Quiescent == \A t \in Threads : th[t].pc \in {"idle", "returned"}

\* the result of search(key) run alone from the current state
SearchNow(key) == RunCall(Call(World, 1, "search", key, 0), 1, RunFuel).th[1]

\* Begin(): the leftmost leaf, by first-child traversal
RECURSIVE LeftmostLeaf(_, _)
LeftmostLeaf(page_id, fuel) ==
  IF fuel = 0 \/ page_id \notin PageIds THEN INVALID_PAGE_ID
  ELSE IF pages[page_id].type = "internal" /\ GetSize(pages[page_id]) > 0
       THEN LeftmostLeaf(ValueAt(pages[page_id], 0), fuel - 1)
       ELSE page_id

\* operator++ repeated from a leaf: the keys produced, and whether the end
\* state is reached within NumPages leaves
RECURSIVE Scan(_, _)
Scan(page_id, fuel) ==
  IF page_id = INVALID_PAGE_ID THEN [keys |-> <<>>, ended |-> TRUE]
  ELSE IF fuel = 0 \/ page_id \notin PageIds THEN [keys |-> <<>>, ended |-> FALSE]
  ELSE LET rest == Scan(pages[page_id].next, fuel - 1)
       IN [keys |-> pages[page_id].keys \o rest.keys, ended |-> rest.ended]

FullScan ==
  IF root_page_id = INVALID_PAGE_ID THEN [keys |-> <<>>, ended |-> TRUE]
  ELSE Scan(LeftmostLeaf(root_page_id, NumPages), NumPages)

SeqSet(s) == {s[i] : i \in 1..Len(s)}

StrictlyIncreasing(s) == \A i \in 1..(Len(s) - 1) : s[i] < s[i + 1]

Present == {k \in DOMAIN model : model[k] # 0}

\* page ids reachable from the root through child pointers, with their depth
RECURSIVE NodesBelow(_, _, _)
NodesBelow(page_id, depth, fuel) ==
  IF fuel = 0 \/ page_id \notin PageIds THEN {}
  ELSE {<<page_id, depth>>} \cup
       (IF pages[page_id].type = "internal"
        THEN UNION {NodesBelow(ValueAt(pages[page_id], i), depth + 1, fuel - 1) :
                      i \in 0..(GetSize(pages[page_id]) - 1)}
        ELSE {})

TreeNodes == IF root_page_id = INVALID_PAGE_ID THEN {} ELSE NodesBelow(root_page_id, 1, NumPages)

\* the number of levels below and including a page when all its leaves are
\* at one depth, -1 otherwise
RECURSIVE Levels(_, _)
Levels(page_id, fuel) ==
  IF fuel = 0 \/ page_id \notin PageIds THEN -1
  ELSE IF pages[page_id].type = "internal"
       THEN LET below == {Levels(ValueAt(pages[page_id], i), fuel - 1) :
                            i \in 0..(GetSize(pages[page_id]) - 1)}
            IN IF Cardinality(below) = 1 /\ -1 \notin below
               THEN 1 + (CHOOSE d \in below : TRUE)
               ELSE -1
       ELSE 1

Height == IF root_page_id = INVALID_PAGE_ID THEN 0 ELSE Levels(root_page_id, NumPages)

Balanced == Height >= 0

LatchFree == \A t \in Threads, p \in PageIds \cup {HEADER_PAGE_ID} :
               ~HoldsWrite(th[t], p) /\ ~HoldsRead(th[t], p)

\* ------------------------------------------------------- iterator calls
\* a read of page_id through a guard finds a leaf page
ReadsLeaf(page_id) == page_id \in PageIds /\ pages[page_id].type = "leaf"

\* Begin(key): the leaf the key-guided descent ends at
RECURSIVE LeafFor(_, _, _)
LeafFor(page_id, key, fuel) ==
  IF fuel = 0 \/ page_id \notin PageIds THEN INVALID_PAGE_ID
  ELSE IF pages[page_id].type = "internal" /\ GetSize(pages[page_id]) > 0
       THEN LeafFor(InternalLookup(pages[page_id], key), key, fuel - 1)
       ELSE page_id

\* a Begin() without the check for the empty tree
BeginIteratorUnchecked == IndexIterator(LeftmostLeaf(root_page_id, NumPages), 0, FALSE)

BeginIterator ==
  IF root_page_id = INVALID_PAGE_ID THEN EndIterator
  ELSE IndexIterator(LeftmostLeaf(root_page_id, NumPages), 0, FALSE)

BeginAt(key) ==
  IF root_page_id = INVALID_PAGE_ID THEN EndIterator
  ELSE LET leaf_id == LeafFor(root_page_id, key, NumPages)
           leaf == pages[leaf_id]
           index == LowerBound(leaf, key)
       IN IF index >= GetSize(leaf)
          THEN IF leaf.next = INVALID_PAGE_ID THEN EndIterator
               ELSE IndexIterator(leaf.next, 0, FALSE)
          ELSE IndexIterator(leaf_id, index, FALSE)

\* operator++
Advance(iter) ==
  IF iter.is_end_ THEN iter
  ELSE LET leaf == pages[iter.guard_]
           index == iter.index_ + 1
       IN IF index >= GetSize(leaf)
          THEN IF leaf.next = INVALID_PAGE_ID
               THEN [iter EXCEPT !.index_ = index, !.is_end_ = TRUE, !.guard_ = INVALID_PAGE_ID]
               ELSE [iter EXCEPT !.guard_ = leaf.next, !.index_ = 0]
          ELSE [iter EXCEPT !.index_ = index]

\* operator==
IteratorEquals(a, b) ==
  IF a.is_end_ /\ b.is_end_ THEN TRUE
  ELSE IF a.is_end_ \/ b.is_end_ THEN FALSE
  ELSE a.guard_ = b.guard_ /\ a.index_ = b.index_

\* operator*: the key
KeyUnder(iter) == KeyAt(pages[iter.guard_], iter.index_)

Dereferenceable(iter) ==
  ~iter.is_end_ /\ ReadsLeaf(iter.guard_) /\ iter.index_ < GetSize(pages[iter.guard_])

\* the caller holds no iterator: a call that changes the tree while one is
\* held invalidates it
NoIterator == it = EndIterator /\ walk = NoWalk

\* Insert or Remove whose result the caller takes at once
Modify(op, key) ==
  /\ AllIdle
  /\ NoIterator
  /\ op = "insert" => CanAllocate
  /\ \E W \in {RunCall(Call(World, 1, op, key, IF op = "insert" THEN 100 + key ELSE 0), 1, RunFuel)} :
        /\ W.th[1].pc = "returned"
        /\ Install([W EXCEPT !.th[1] = [NewContext EXCEPT !.header_page_ = W.th[1].header_page_,
                                                          !.write_set_ = W.th[1].write_set_]])
  /\ UNCHANGED <<config, route, nops, aux>>

\* it = tree.Begin(); a guard on a page that was deleted reads freed memory
TreeBegin ==
  /\ AllIdle
  /\ NoIterator
  /\ it' = BeginIterator
  /\ walk' = [from |-> "begin", key |-> 0, steps |-> 0]
  /\ ub' = (~BeginIterator.is_end_ /\ ~ReadsLeaf(BeginIterator.guard_))
  /\ UNCHANGED <<config, route, pages, root_page_id, th, model, nops, script>>

\* it = tree.Begin(key)
TreeBeginAt(key) ==
  /\ AllIdle
  /\ NoIterator
  /\ it' = BeginAt(key)
  /\ walk' = [from |-> "key", key |-> key, steps |-> 0]
  /\ ub' = (~BeginAt(key).is_end_ /\ ~ReadsLeaf(BeginAt(key).guard_))
  /\ UNCHANGED <<config, route, pages, root_page_id, th, model, nops, script>>

\* ++it, at most MaxAdvances times on an iterator from Begin() and
\* MaxKeyAdvances times on one from Begin(key)
TreeAdvance ==
  /\ ~ub
  /\ walk.from # "none"
  /\ walk.steps < (IF walk.from = "begin" THEN MaxAdvances ELSE MaxKeyAdvances)
  /\ it' = Advance(it)
  /\ walk' = [walk EXCEPT !.steps = walk.steps + 1]
  /\ ub' = (~Advance(it).is_end_ /\ ~ReadsLeaf(Advance(it).guard_))
  /\ UNCHANGED <<config, route, pages, root_page_id, th, model, nops, script>>

\* the iterator goes out of scope
TreeRelease ==
  /\ walk.from # "none"
  /\ it' = EndIterator
  /\ walk' = NoWalk
  /\ UNCHANGED <<config, route, pages, root_page_id, th, model, ub, nops, script>>

NextIter ==
  \/ \E key \in Keys : Modify("insert", key)
  \/ \E key \in Keys : Modify("remove", key)
  \/ TreeBegin
  \/ \E key \in Keys : TreeBeginAt(key)
  \/ TreeAdvance
  \/ TreeRelease

\* the calls are made one after the other: the build of 8.3
InitIter == Init /\ latch_coupling = "complete"

SpecIter == InitIter /\ [][NextIter]_vars

\* the calls of 8.3 together with point lookups: every kind of call a single
\* caller makes
NextCalls ==
  \/ NextIter
  \/ \E key \in Keys : NoIterator /\ GetValue(key)
  \/ NoIterator /\ Resume(1)

SpecCalls == InitIter /\ [][NextCalls]_vars

\* ------------------------------------------------------------ properties
\* C1: when insert(k, v) of an absent key has returned true, search(k) run
\* next returns v.
InsertThenSearch ==
  (th[1].pc = "returned" /\ th[1].op = "insert" /\ th[1].was = 0 /\ th[1].ret)
    => LET r == SearchNow(th[1].key)
       IN r.pc = "returned" /\ r.ret /\ r.out = th[1].value

\* C2: when delete(k) of a key that an earlier insert stored has returned,
\* search(k) run next returns not-found.
InsertDeleteThenSearch ==
  (th[1].pc = "returned" /\ th[1].op = "remove" /\ th[1].was # 0)
    => LET r == SearchNow(th[1].key)
       IN r.pc = "returned" /\ ~r.ret

DeletedAfterInsert ==
  /\ th[1].pc = "returned" /\ th[1].op = "remove" /\ th[1].was # 0
  /\ Height >= 2
  /\ Present # {}

\* C3: with no call in progress, iterating from begin() reaches the end state
\* and produces every stored key exactly once.
IterationComplete ==
  Quiescent => /\ FullScan.ended
               /\ SeqSet(FullScan.keys) = Present
               /\ Len(FullScan.keys) = Cardinality(Present)

\* C4: with no call in progress, the keys read along the leaf chain from the
\* leftmost leaf are strictly increasing and the chain ends at a leaf whose
\* next pointer is none.
LeafChainSorted ==
  Quiescent => FullScan.ended /\ StrictlyIncreasing(FullScan.keys)

\* C5: with no call in progress, every non-root page of the tree holds between
\* GetMinSize and GetMaxSize entries, a root leaf at least one entry and a
\* root internal page at least two children.
FillInvariant ==
  Quiescent =>
    \A n \in TreeNodes :
      LET p == pages[n[1]]
      IN /\ GetSize(p) <= GetMaxSize(p)
         /\ IF n[1] = root_page_id
            THEN GetSize(p) >= (IF p.type = "internal" THEN 2 ELSE 1)
            ELSE GetSize(p) >= GetMinSize(p)

AbsentDeleteNoOp ==
  [][(th[1].pc = "idle" /\ th'[1].pc = "returned" /\ th'[1].op = "remove" /\ th'[1].was = 0)
       => /\ pages' = pages
          /\ root_page_id' = root_page_id
          /\ model' = model
          /\ LatchFree']_vars

AbsentDeleteReturned ==
  /\ th[1].pc = "returned" /\ th[1].op = "remove" /\ th[1].was = 0
  /\ Height >= 2

\* ------------------------------------------------- concurrent properties
Running(t) == th[t].pc \in {"header", "root", "child", "sibling"}

Blocked(t) == Running(t) /\ ~Granted(World, t)

\* u holds a latch that keeps t from the latch it requests
Conflicts(u, t) ==
  IF th[t].op = "search" THEN HoldsWrite(th[u], th[t].want)
  ELSE HoldsWrite(th[u], th[t].want) \/ HoldsRead(th[u], th[t].want)

HeldPages(t) == {p \in PageIds : HoldsWrite(th[t], p)}

InTree(p) == \E n \in TreeNodes : n[1] = p

DepthOf(p) == (CHOOSE n \in TreeNodes : n[1] = p)[2]

\* C9: an insert or delete requests the header latch holding nothing, the
\* root latch holding the header latch only, a child's latch holding its
\* parent's latch, and never a latch on a page at a higher level than a page
\* it holds.
LatchOrder ==
  \A t \in Threads :
    (th[t].op \in {"insert", "remove"} /\ Running(t)) =>
      LET T == th[t]
      IN /\ T.pc = "header" => (HeldPages(t) = {} /\ ~T.header_page_)
         /\ T.pc = "root" => (T.header_page_ /\ HeldPages(t) = {} /\ T.want = root_page_id)
         /\ T.pc = "child" =>
              /\ T.write_set_ # <<>>
              /\ HoldsWrite(T, BackPid(T))
              /\ ValueIndex(pages[BackPid(T)], T.want) >= 0
         /\ \A p \in HeldPages(t) :
              (InTree(p) /\ InTree(T.want)) => DepthOf(p) <= DepthOf(T.want)

SafeNodeRelease ==
  [][\A t \in Threads :
       (th[t].op \in {"insert", "remove"} /\ th'[t] # th[t]) =>
         /\ th[t].pc \in {"root", "child"} =>
              IF IsSafeNode(pages[th[t].want], th[t].op)
              THEN HeldPages(t)' = {th[t].want} /\ ~th'[t].header_page_
              ELSE /\ HeldPages(t)' = HeldPages(t) \cup {th[t].want}
                   /\ th'[t].header_page_ = th[t].header_page_
         /\ (th[t].pc \in {"leaf", "sibling"} /\ th'[t].pc # "returned") =>
              /\ \A p \in HeldPages(t) : p \in HeldPages(t)' \/ pages'[p].type = "free"
              /\ th'[t].header_page_ = th[t].header_page_]_vars

\* the header latch is held by thread t
HoldsHeader(t) == th[t].header_page_ \/ th[t].header_read

\* the root id a thread works with is the header's while it holds the header
\* latch, and the root page is requested under the header latch
RootIdCurrent ==
  \A t \in Threads :
    /\ th[t].pc = "root" => (HoldsHeader(t) /\ th[t].want = root_page_id)
    /\ (th[t].header_page_ /\ th[t].pc \notin {"idle", "returned"}) =>
         th[t].root_page_id_ = root_page_id

\* the header's root id is written by a thread that holds the header's
\* exclusive latch, which a call takes once, at its start
RootWriteLatched ==
  /\ root_page_id' # root_page_id =>
       \E t \in Threads :
         /\ th'[t] # th[t]
         /\ th[t].op \in {"insert", "remove"}
         /\ th[t].header_page_ \/ (th[t].pc = "header" /\ Granted(World, t))
         /\ \A u \in Threads \ {t} : ~HoldsHeader(u)
  /\ \A t \in Threads :
       (~th[t].header_page_ /\ th'[t].header_page_) => th[t].pc = "header"

ReleasedOnReturn ==
  \A t \in Threads :
    th[t].pc \in {"idle", "returned"} =>
      \A p \in PageIds \cup {HEADER_PAGE_ID} : ~HoldsWrite(th[t], p) /\ ~HoldsRead(th[t], p)

\* C14: when threads insert keys of disjoint sets concurrently and every
\* thread's insert has returned, the leaf chain is sorted and ends, iteration
\* and search find every stored key, every page is filled within its limits
\* and all leaves are at one depth.
ConcurrentInserts ==
  (\A t \in Threads : th[t].pc = "returned" /\ th[t].op = "insert") =>
    /\ FullScan.ended
    /\ StrictlyIncreasing(FullScan.keys)
    /\ SeqSet(FullScan.keys) = Present
    /\ \A k \in Present : SearchNow(k).ret /\ SearchNow(k).out = model[k]
    /\ FillInvariant
    /\ Balanced

\* the root is an internal page with exactly the two leaves left and right
\* and their separator key
TwoLeaves(left, right, separator) ==
  /\ root_page_id \in PageIds
  /\ pages[root_page_id].type = "internal"
  /\ GetSize(pages[root_page_id]) = 2
  /\ ValueAt(pages[root_page_id], 0) \in PageIds
  /\ ValueAt(pages[root_page_id], 1) \in PageIds
  /\ pages[ValueAt(pages[root_page_id], 0)].type = "leaf"
  /\ pages[ValueAt(pages[root_page_id], 1)].type = "leaf"
  /\ pages[ValueAt(pages[root_page_id], 0)].keys = left
  /\ pages[ValueAt(pages[root_page_id], 1)].keys = right
  /\ KeyAt(pages[root_page_id], 1) = separator

\* the root is a leaf with these keys
OneLeaf(keys) ==
  /\ root_page_id \in PageIds
  /\ pages[root_page_id].type = "leaf"
  /\ pages[root_page_id].keys = keys

\* C15: with both max sizes 4, after the inserts of 10, 20, 30, 40 into the
\* empty tree the root is one leaf with the four keys; after the insert of 25
\* the root is an internal page with the leaves {10,20,25} and {30,40} and the
\* separator 30, or {10,20} and {25,30,40} and the separator 25, and
\* iteration yields 10, 20, 25, 30, 40 and ends.
SplitScenario ==
  /\ script = 4 => OneLeaf(<<10, 20, 30, 40>>)
  /\ script = 5 =>
       /\ \/ TwoLeaves(<<10, 20, 25>>, <<30, 40>>, 30)
          \/ TwoLeaves(<<10, 20>>, <<25, 30, 40>>, 25)
       /\ FullScan.ended
       /\ FullScan.keys = <<10, 20, 25, 30, 40>>

\* C16 as stated: after delete(40) on the tree of the split scenario the two
\* leaves are merged into one leaf, which is the root.
MergeScenarioAtFirstDelete ==
  script = 6 => (Height = 1 /\ OneLeaf(<<10, 20, 25, 30>>))

\* C16: on the tree of the split scenario delete(40) leaves the right leaf
\* with GetMinSize = 2 entries and merges nothing; delete(30) then makes it
\* underflow and, the left leaf holding exactly GetMinSize entries, the two
\* leaves are merged into the left one, the separator leaves the parent and
\* that leaf becomes the root of a tree of height 1.
MergeScenario ==
  /\ script = 6 => TwoLeaves(<<10, 20>>, <<25, 30>>, 25)
  /\ script = 7 =>
       /\ Height = 1
       /\ OneLeaf(<<10, 20, 25>>)
       /\ Cardinality(FreeIds(World)) = TreeShare - 1

ScenarioMerged == script = 7 /\ th[1].pc = "returned" /\ th[1].op = "remove" /\ th[1].key = 30

\* the tree pages thread t holds a shared latch on
ReadLatches(t) == {p \in PageIds : HoldsRead(th[t], p)}

Least(S) == CHOOSE x \in S : \A y \in S : x <= y

\* the leaves of the tree
TreeLeaves == {n[1] : n \in {m \in TreeNodes : pages[m[1]].type = "leaf"}}

LowerBoundPositioned ==
  (walk.from = "key" /\ walk.steps = 0) =>
    LET above == {k \in Present : k >= walk.key}
    IN IF above = {}
       THEN IteratorEquals(it, EndIterator)
       ELSE Dereferenceable(it) /\ KeyUnder(it) = Least(above)

\* C20: operator++ on an iterator that is not at the end moves it by one
\* position inside its leaf, or past the last entry to index 0 of the leaf's
\* sibling, or, the leaf having no sibling, sets is_end_ and releases the leaf;
\* on an iterator at the end it changes nothing; and an iterator from Begin()
\* is at the end exactly when as many operator++ calls were made on it as keys
\* are stored.
AdvanceToEnd ==
  /\ [](walk.from = "begin" =>
          (IteratorEquals(it, EndIterator) <=> walk.steps >= Cardinality(Present)))
  /\ [][walk'.steps = walk.steps + 1 =>
          IF it.is_end_ THEN it' = it
          ELSE IF it.index_ + 1 < GetSize(pages[it.guard_])
          THEN it'.guard_ = it.guard_ /\ it'.index_ = it.index_ + 1 /\ ~it'.is_end_
          ELSE IF pages[it.guard_].next # INVALID_PAGE_ID
          THEN it'.guard_ = pages[it.guard_].next /\ it'.index_ = 0 /\ ~it'.is_end_
          ELSE it'.is_end_ /\ it'.guard_ = INVALID_PAGE_ID]_vars

\* ------------------------------------------------------ structure properties
\* C21: an insert during which NewPage() found no free page does not report
\* success, leaves every page and the header's root id as they were before the
\* call, and holds no latch when it has returned.
AllocationFailureClean ==
  [][(th[1].pc = "idle" /\ th'[1].pc = "returned" /\ th'[1].op = "insert" /\ th'[1].nomem)
       => /\ ~th'[1].ret
          /\ pages' = pages
          /\ root_page_id' = root_page_id
          /\ LatchFree']_vars

RECURSIVE SubtreeKeys(_, _)
SubtreeKeys(page_id, fuel) ==
  IF fuel = 0 \/ page_id \notin PageIds THEN {}
  ELSE IF pages[page_id].type = "internal"
       THEN UNION {SubtreeKeys(ValueAt(pages[page_id], i), fuel - 1) :
                     i \in 0..(GetSize(pages[page_id]) - 1)}
       ELSE SeqSet(pages[page_id].keys)

\* C23: with no call in progress and no undefined behaviour so far (the tree
\* was changed by completed inserts and deletes only), every internal page of the tree has as
\* many children as keys, its keys at the indices 1 to size - 1 are strictly
\* increasing and none of them is the invalid key of index 0, and every key
\* stored below child i is >= key i (for i >= 1) and < key i + 1 (for
\* i < size - 1).
RoutingInvariant ==
  Quiescent /\ ~ub =>
    \A n \in TreeNodes :
      LET p == pages[n[1]]
      IN p.type = "internal" =>
           /\ Len(p.keys) = Len(p.vals)
           /\ \A i \in 1..(GetSize(p) - 1) : KeyAt(p, i) # INVALID_KEY
           /\ \A i \in 1..(GetSize(p) - 2) : KeyAt(p, i) < KeyAt(p, i + 1)
           /\ \A i \in 0..(GetSize(p) - 1) : \A k \in SubtreeKeys(ValueAt(p, i), NumPages) :
                /\ i >= 1 => k >= KeyAt(p, i)
                /\ i < GetSize(p) - 1 => k < KeyAt(p, i + 1)

LeafSplitRelink ==
  [][\A n \in PageIds :
       (/\ root_page_id # INVALID_PAGE_ID
        /\ ~ub'
        /\ th'[1].op = "insert" /\ th'[1].pc = "returned"
        /\ pages[n].type = "free" /\ pages'[n].type = "leaf")
       => \E l \in PageIds :
            /\ pages[l].type = "leaf" /\ pages'[l].type = "leaf"
            /\ pages'[l].next = n
            /\ pages'[n].next = pages[l].next
            /\ pages'[n].next # n]_vars

\* C26: when an insert has returned, every page it allocated in a split (a
\* free page that has become a leaf or an internal page and is not the root)
\* is a child of an internal page of the tree, right after a child of its own
\* kind that was in the tree before: the new page sits immediately after the
\* page that was split, at every level of the path.
SplitPropagation ==
  [][\A n \in PageIds :
       (/\ th'[1].op = "insert" /\ th'[1].pc = "returned"
        /\ pages[n].type = "free" /\ pages'[n].type \in {"leaf", "internal"}
        /\ n # root_page_id')
       => \E q \in {m[1] : m \in TreeNodes'} :
            /\ pages'[q].type = "internal"
            /\ \E i \in 0..(GetSize(pages'[q]) - 2) :
                  /\ ValueAt(pages'[q], i + 1) = n
                  /\ ValueAt(pages'[q], i) \in PageIds
                  /\ pages[ValueAt(pages'[q], i)].type = pages'[n].type
                  /\ pages'[ValueAt(pages'[q], i)].type = pages'[n].type]_vars

\* the internal page of the tree that has page_id as a child, INVALID_PAGE_ID for the root
ParentOf(page_id) ==
  LET above == {q \in {m[1] : m \in TreeNodes} :
                  /\ pages[q].type = "internal"
                  /\ \E i \in 0..(GetSize(pages[q]) - 1) : ValueAt(pages[q], i) = page_id}
  IN IF above = {} THEN INVALID_PAGE_ID ELSE CHOOSE q \in above : TRUE

RECURSIVE SearchPath(_, _, _)
SearchPath(page_id, key, fuel) ==
  IF fuel = 0 \/ page_id \notin PageIds THEN <<>>
  ELSE IF pages[page_id].type = "internal" /\ GetSize(pages[page_id]) > 0
       THEN <<page_id>> \o SearchPath(InternalLookup(pages[page_id], key), key, fuel - 1)
       ELSE <<page_id>>

\* C28: in an insert or a delete, a page of the descent that is safe for the
\* operation when the call starts keeps its entries and gets at most one more
\* (insert: it is not split), or loses at most one entry and stays at or above
\* GetMinSize (delete: it neither underflows nor is merged away); and nothing
\* above it changes: not the pages above it on the path, not the root id.
SafeNodeStable ==
  [][(th[1].pc = "idle" /\ th'[1].pc = "returned" /\ th'[1].op \in {"insert", "remove"}
      /\ root_page_id # INVALID_PAGE_ID)
     => LET path == SearchPath(root_page_id, th'[1].key, NumPages)
        IN \A i \in 1..Len(path) :
             LET p == path[i]
             IN IsSafeNode(pages[p], th'[1].op) =>
                  /\ pages'[p].type = pages[p].type
                  /\ th'[1].op = "insert" =>
                        /\ GetSize(pages'[p]) \in {GetSize(pages[p]), GetSize(pages[p]) + 1}
                        /\ GetSize(pages'[p]) <= GetMaxSize(pages[p])
                        /\ SeqSet(pages[p].vals) \subseteq SeqSet(pages'[p].vals)
                  /\ th'[1].op = "remove" =>
                        /\ GetSize(pages'[p]) \in {GetSize(pages[p]) - 1, GetSize(pages[p])}
                        /\ GetSize(pages'[p]) >= GetMinSize(pages[p])
                  /\ root_page_id' = root_page_id
                  /\ \A j \in 1..(i - 1) : pages'[path[j]] = pages[path[j]]]_vars

\* an insert has split a leaf below a root that had room: the tree holds four
\* keys in three leaves and the key just inserted is alone in its leaf, so the
\* tree had two leaves before and the root, safe with two children, now has
\* GetMaxSize children and is still the root
SafeParentTookSplit ==
  /\ th[1].pc = "returned" /\ th[1].op = "insert" /\ th[1].ret /\ ~ub
  /\ leaf_max_size = 2
  /\ Height = 2
  /\ GetSize(pages[root_page_id]) = GetMaxSize(pages[root_page_id])
  /\ Cardinality(Present) = 4
  /\ pages[LeafFor(root_page_id, th[1].key, NumPages)].keys = <<th[1].key>>

\* the entries of a page: the keys of a leaf, the children of an internal page
Items(p) == IF p.type = "leaf" THEN p.keys ELSE p.vals

RECURSIVE Without(_, _)
Without(seq, x) ==
  IF seq = <<>> THEN <<>>
  ELSE IF Head(seq) = x THEN Without(Tail(seq), x)
  ELSE <<Head(seq)>> \o Without(Tail(seq), x)

\* the position of page path[i] under its parent path[i - 1]
PosOn(path, i) == ValueIndex(pages[path[i - 1]], path[i])

\* the sibling CoalesceOrRedistribute takes for path[i]: the left one, the
\* right one for a first child
SiblingOn(path, i) ==
  IF PosOn(path, i) > 0
  THEN ValueAt(pages[path[i - 1]], PosOn(path, i) - 1)
  ELSE ValueAt(pages[path[i - 1]], 1)

\* the delete of a stored key makes path[i] underflow: the leaf by losing the
\* key, an internal page by losing a child to a merge one level below
RECURSIVE Underflows(_, _)
Underflows(path, i) ==
  LET node == pages[path[i]]
  IN /\ GetSize(node) - 1 < GetMinSize(node)
     /\ i < Len(path) =>
           /\ Underflows(path, i + 1)
           /\ GetSize(pages[SiblingOn(path, i + 1)]) <= GetMinSize(pages[SiblingOn(path, i + 1)])

\* what path[i] holds when it underflows
Remaining(path, i, key) ==
  IF i = Len(path) THEN Without(pages[path[i]].keys, key)
  ELSE Without(pages[path[i]].vals,
               IF PosOn(path, i + 1) > 0 THEN path[i + 1] ELSE SiblingOn(path, i + 1))

\* from path[i] down, every page on the path and the sibling taken for it are
\* of one kind, so that the two are read through the layout they were written in
SameKind(path, i) ==
  \A j \in i..Len(path) : pages[SiblingOn(path, j)].type = pages[path[j]].type

\* C29: when the delete of a stored key makes a page below the root underflow,
\* its left sibling under the same parent (a page of its own kind) is taken
\* unless the page is the first child, and then the right one.  A sibling above GetMinSize gives its
\* boundary entry (its last to the front of the page, or its first to the end)
\* and both pages end with at least GetMinSize entries; otherwise the page is
\* appended to its left sibling, or the right sibling to the page, and the
\* emptied page is freed.  With a left sibling the right one is not touched.
UnderflowPolicy ==
  [][(th[1].pc = "idle" /\ th'[1].pc = "returned" /\ th'[1].op = "remove" /\ th'[1].ret
      /\ root_page_id # INVALID_PAGE_ID)
     => LET path == SearchPath(root_page_id, th'[1].key, NumPages)
        IN \A i \in 2..Len(path) :
             (Underflows(path, i) /\ SameKind(path, i)) =>
               LET node_id == path[i]
                   parent == pages[path[i - 1]]
                   node_pos == PosOn(path, i)
                   sibling_id == SiblingOn(path, i)
                   sibling == pages[sibling_id]
                   rest == Remaining(path, i, th'[1].key)
               IN /\ IF GetSize(sibling) > GetMinSize(sibling)
                     THEN /\ IF node_pos > 0
                             THEN /\ Items(pages'[sibling_id]) = SubSeq(Items(sibling), 1, GetSize(sibling) - 1)
                                  /\ Items(pages'[node_id]) = <<Items(sibling)[GetSize(sibling)]>> \o rest
                             ELSE /\ Items(pages'[sibling_id]) = Tail(Items(sibling))
                                  /\ Items(pages'[node_id]) = rest \o <<Head(Items(sibling))>>
                          /\ GetSize(pages'[node_id]) >= GetMinSize(pages'[node_id])
                          /\ GetSize(pages'[sibling_id]) >= GetMinSize(pages'[sibling_id])
                     ELSE IF node_pos > 0
                          THEN /\ pages'[node_id].type = "free"
                               /\ Items(pages'[sibling_id]) = Items(sibling) \o rest
                          ELSE /\ pages'[sibling_id].type = "free"
                               /\ Items(pages'[node_id]) = rest \o Items(sibling)
                  /\ node_pos > 0 /\ node_pos < GetSize(parent) - 1 =>
                        pages'[ValueAt(parent, node_pos + 1)] = pages[ValueAt(parent, node_pos + 1)]]_vars

\* the first call on the tree [1][3][4] | [5][6] has deleted 3: its leaf, the
\* middle child, underflowed with a sibling on either side and went into the left one
LeftSiblingTaken ==
  /\ th[1].pc = "returned" /\ th[1].op = "remove" /\ th[1].ret /\ th[1].key = 3
  /\ nops = 1
  /\ leaf_max_size = 1
  /\ model[6] # 0
  /\ Height = 3
  /\ Cardinality({n \in TreeNodes : pages[n[1]].type = "leaf"}) = 4

\* C30: a step that frees a page other than the root has merged it into the
\* child before it in their parent: that page now holds its own entries
\* followed by those of the freed page, in order, and no more than
\* GetMaxSize; for leaves its next pointer is the one the freed page had;
\* the parent, unless it was the root and is freed as well, has lost exactly
\* the entry of the freed page; the freed page is empty and no thread holds a
\* latch on it.
MergeEffect ==
  [][\A n \in PageIds :
       (/\ pages[n].type \in {"leaf", "internal"}
        /\ pages'[n].type = "free"
        /\ n # root_page_id)
       => LET parent_id == ParentOf(n)
              parent == pages[parent_id]
              pos == ValueIndex(parent, n)
              recipient_id == ValueAt(parent, pos - 1)
          IN /\ parent_id # INVALID_PAGE_ID
             /\ pos >= 1
             /\ pages'[recipient_id].type = pages[n].type
             /\ Items(pages'[recipient_id]) = Items(pages[recipient_id]) \o Items(pages[n])
             /\ GetSize(pages'[recipient_id]) <= GetMaxSize(pages'[recipient_id])
             /\ pages[n].type = "leaf" => pages'[recipient_id].next = pages[n].next
             /\ \/ pages'[parent_id].type = "free"
                \/ /\ pages'[parent_id].vals = RemoveSeqAt(parent.vals, pos)
                   /\ pages'[parent_id].keys = RemoveSeqAt(parent.keys, pos)
             /\ GetSize(pages'[n]) = 0
             /\ \A t \in Threads : ~HoldsWrite(th'[t], n) /\ ~HoldsRead(th'[t], n)]_vars

\* a delete has merged its leaf into the left sibling, dropped the leaf's
\* guard and freed the page, and now waits for a sibling of the parent
MergedAndFreed ==
  \E t \in Threads :
    /\ th[t].op = "remove" /\ th[t].pc = "sibling"
    /\ \E i \in 1..Len(th[t].write_set_) :
          /\ ~th[t].write_set_[i].held
          /\ pages[th[t].write_set_[i].pid].type = "free"

\* C31: a delete that takes the last entry of a leaf root leaves the header
\* with INVALID_PAGE_ID and the root page freed; a delete that changes the
\* root otherwise makes the only child of the old, internal root the root,
\* frees the old root and lowers the height by one; and when a delete of a
\* stored key has returned the root is not an internal page with one child.
RootUnderflow ==
  [][(th[1].pc = "idle" /\ th'[1].pc = "returned" /\ th'[1].op = "remove" /\ th'[1].ret /\ ~ub')
     => /\ (root_page_id \in PageIds /\ pages[root_page_id].keys = <<th'[1].key>>
            /\ IsLeafPage(pages[root_page_id]))
           => (root_page_id' = INVALID_PAGE_ID /\ pages'[root_page_id].type = "free")
        /\ (root_page_id' # root_page_id /\ root_page_id' # INVALID_PAGE_ID)
           => /\ pages[root_page_id].type = "internal"
              /\ root_page_id' \in SeqSet(pages[root_page_id].vals)
              /\ pages'[root_page_id].type = "free"
              /\ Height' = Height - 1
        /\ (root_page_id' \in PageIds /\ pages'[root_page_id'].type = "internal")
           => GetSize(pages'[root_page_id']) >= 2]_vars

RECURSIVE KeysBelow(_, _, _)
KeysBelow(ps, page_id, fuel) ==
  IF fuel = 0 \/ page_id \notin PageIds THEN {}
  ELSE IF ps[page_id].type = "internal"
       THEN UNION {KeysBelow(ps, ps[page_id].vals[i], fuel - 1) : i \in 1..Len(ps[page_id].vals)}
       ELSE IF ps[page_id].type = "leaf" THEN SeqSet(ps[page_id].keys)
       ELSE {}

\* C33: an insert into a tree that is not empty takes entries from the root
\* page exactly when it changes the header's root id; the new root is a page
\* allocated by the call, an internal page of exactly two entries: child 0 is
\* the old root, child 1 a page allocated by the call, of the old root's kind,
\* and key 1 separates them (it is above every key below child 0, not above
\* any key below child 1, and the key at index 0 of child 1); the height is
\* one more than before.
RootSplit ==
  [][(th[1].pc = "idle" /\ th'[1].pc = "returned" /\ th'[1].op = "insert"
      /\ root_page_id \in PageIds /\ ~ub')
     => /\ (GetSize(pages'[root_page_id]) < GetSize(pages[root_page_id]))
             <=> (root_page_id' # root_page_id)
        /\ (root_page_id' # root_page_id)
           => /\ root_page_id' \in PageIds
              /\ pages[root_page_id'].type = "free"
              /\ LET new_root == pages'[root_page_id']
                     right == ValueAt(new_root, 1)
                 IN /\ new_root.type = "internal"
                    /\ GetSize(new_root) = 2
                    /\ ValueAt(new_root, 0) = root_page_id
                    /\ right \in PageIds
                    /\ right # root_page_id'
                    /\ pages[right].type = "free"
                    /\ pages'[right].type = pages[root_page_id].type
                    /\ pages'[root_page_id].type = pages[root_page_id].type
                    /\ \A k \in KeysBelow(pages', root_page_id, NumPages) : k < KeyAt(new_root, 1)
                    /\ \A k \in KeysBelow(pages', right, NumPages) : k >= KeyAt(new_root, 1)
                    /\ KeyAt(new_root, 1) = KeyAt(pages'[right], 0)
              /\ Height' = Height + 1]_vars

\* the fifth key has gone into a tree of leaves of two entries and the tree
\* has three levels: the insert has split a leaf below the full root of three
\* children, and the root
InternalRootSplit ==
  /\ th[1].pc = "returned" /\ th[1].op = "insert" /\ th[1].ret /\ ~ub
  /\ leaf_max_size = 2
  /\ Cardinality(Present) = 5
  /\ Height = 3
  /\ GetSize(pages[root_page_id]) = 2

\* C34: the header's root page id changes only in a call that installs the
\* first root (the tree was empty, the new root is a fresh leaf holding the
\* one key), splits the root (the new root is a fresh internal page of two
\* children whose first child is the old root), collapses the root (the old
\* internal root is deleted and one of its children is the root) or empties
\* the tree (the old leaf root held the last key and is deleted); a call
\* that leaves the set of stored keys as it was (a duplicate insert, a delete
\* of an absent key, a search, a step of an iterator) leaves the root page id
\* unchanged
HeaderFrame ==
  [][~ub'
     => /\ (Present' = Present) => (root_page_id' = root_page_id)
        /\ (root_page_id' # root_page_id)
           => \/ /\ root_page_id = INVALID_PAGE_ID
                 /\ Present = {}
                 /\ Cardinality(Present') = 1
                 /\ root_page_id' \in PageIds
                 /\ pages[root_page_id'].type = "free"
                 /\ pages'[root_page_id'].type = "leaf"
                 /\ GetSize(pages'[root_page_id']) = 1
              \/ /\ root_page_id \in PageIds
                 /\ root_page_id' \in PageIds
                 /\ Cardinality(Present') = Cardinality(Present) + 1
                 /\ pages[root_page_id'].type = "free"
                 /\ pages'[root_page_id'].type = "internal"
                 /\ GetSize(pages'[root_page_id']) = 2
                 /\ ValueAt(pages'[root_page_id'], 0) = root_page_id
                 /\ ValueAt(pages'[root_page_id'], 1) \in PageIds
                 /\ pages[ValueAt(pages'[root_page_id'], 1)].type = "free"
                 /\ pages'[ValueAt(pages'[root_page_id'], 1)].type = pages[root_page_id].type
              \/ /\ root_page_id \in PageIds
                 /\ root_page_id' \in PageIds
                 /\ Cardinality(Present') = Cardinality(Present) - 1
                 /\ pages[root_page_id].type = "internal"
                 /\ pages'[root_page_id].type = "free"
                 /\ \E i \in 0..(GetSize(pages[root_page_id]) - 1) :
                       ValueAt(pages[root_page_id], i) = root_page_id'
              \/ /\ root_page_id \in PageIds
                 /\ root_page_id' = INVALID_PAGE_ID
                 /\ Cardinality(Present) = 1
                 /\ Present' = {}
                 /\ pages[root_page_id].type = "leaf"
                 /\ pages'[root_page_id].type = "free"]_vars

\* an iterator has stepped over a tree whose root was installed by the first
\* insert and replaced by the split of the leaf root
FrameExercised ==
  /\ ~ub
  /\ Height = 2
  /\ GetSize(pages[root_page_id]) = 2
  /\ walk.from = "begin"
  /\ walk.steps >= 2

\* the thread t may write the page n in this step: it holds the page's write
\* latch, or is granted it in the step (the sibling it waits for), or has
\* allocated the page in the step; and no other thread holds a latch on it
WritesLatched(t, n) ==
  /\ th'[t] # th[t]
  /\ \/ HoldsWrite(th[t], n)
     \/ th[t].pc = "sibling" /\ th[t].want = n
     \/ pages[n].type = "free"
  /\ \A u \in Threads \ {t} : ~HoldsWrite(th[u], n) /\ ~HoldsRead(th[u], n)

\* the position of the traversal context where the propagation of a split or
\* of a merge looks for the parent, write_set_.size() - 2, holds a guard that
\* the call has not dropped
ParentGuardInPlace(t, freed) ==
  LET parent_index == Len(th[t].write_set_) - 2
  IN /\ parent_index >= 0
     /\ GuardAt(th[t], parent_index).held
     /\ GuardAt(th[t], parent_index).pid \notin freed

Allocated == {p \in PageIds : pages[p].type \in {"leaf", "internal"}}

\* page_id, where something refers to it, is not a deallocated page
Live(page_id) == page_id \in PageIds /\ pages[page_id].type # "free"

NoDanglingChild ==
  \A p \in Allocated : pages[p].type = "internal" =>
     \A i \in 0..(GetSize(pages[p]) - 1) : Live(ValueAt(pages[p], i))

NoDanglingLink ==
  \A p \in Allocated : (pages[p].type = "leaf" /\ pages[p].next # INVALID_PAGE_ID) =>
     Live(pages[p].next)

NoDanglingRoot == root_page_id # INVALID_PAGE_ID => Live(root_page_id)

NoLeakedPage == \A p \in Allocated : InTree(p)

\* C37: whenever no call is in progress, no child pointer, no leaf's next
\* link and not the header's root id refers to a deallocated page, and every
\* allocated page of the tree is reachable from the root id through child
\* pointers
NoDanglingNoLeak ==
  (Quiescent /\ ~ub) => (NoDanglingChild /\ NoDanglingLink /\ NoDanglingRoot /\ NoLeakedPage)

DanglingChildFree == (Quiescent /\ ~ub) => NoDanglingChild
DanglingLinkFree == (Quiescent /\ ~ub) => NoDanglingLink
DanglingRootFree == (Quiescent /\ ~ub) => NoDanglingRoot
LeakFree == (Quiescent /\ ~ub) => NoLeakedPage

\* C38: of the threads that insert keys of their own into an empty tree the
\* one that is granted the header's exclusive latch while the tree is empty
\* installs the root, a leaf it allocates holding its key, through a header
\* guard it holds, and returns true; a thread granted the header afterwards
\* finds the root id set and goes on to latch that root; the root id is set
\* from INVALID_PAGE_ID once and never back, and a later root has the earlier
\* one as its first child; when every thread's insert has returned, every
\* inserted key is found
FirstInsert ==
  /\ [][\A t \in Threads :
          (th[t].op = "insert" /\ th[t].pc = "header" /\ th'[t] # th[t])
          => IF root_page_id = INVALID_PAGE_ID
             THEN /\ CanWritePage(World, HEADER_PAGE_ID)
                  /\ ~ub'
                  /\ root_page_id' \in PageIds
                  /\ pages[root_page_id'].type = "free"
                  /\ pages'[root_page_id'].type = "leaf"
                  /\ pages'[root_page_id'].keys = <<th[t].key>>
                  /\ th'[t].pc = "returned" /\ th'[t].ret
                  /\ \A p \in PageIds \ {root_page_id'} : pages'[p] = pages[p]
             ELSE /\ root_page_id' = root_page_id
                  /\ pages' = pages
                  /\ th'[t].pc = "root"
                  /\ th'[t].want = root_page_id
                  /\ th'[t].header_page_]_vars
  /\ [][(root_page_id' # root_page_id /\ root_page_id # INVALID_PAGE_ID)
          => /\ root_page_id' \in PageIds
             /\ pages'[root_page_id'].type = "internal"
             /\ ValueAt(pages'[root_page_id'], 0) = root_page_id]_vars
  /\ []((\A t \in Threads : th[t].pc = "returned" /\ th[t].op = "insert" /\ th[t].ret)
          => /\ ~ub
             /\ \A t \in Threads : model[th[t].key] = th[t].value
             /\ \A k \in Present : SearchNow(k).ret /\ SearchNow(k).out = model[k])

\* C39: a call that is given every step it can take returns: run alone, it is
\* never left waiting for a latch
CallsReturn == \A t \in Threads : th[t].pc \in {"idle", "returned"}

\* the same among concurrent calls: under a fair scheduler every call that
\* has started returns
Termination ==
  \A t \in Threads : (th[t].pc \notin {"idle", "returned"}) ~> (th[t].pc = "returned")


\* ------------------------------------------------------------ Work route
\* the files work/<slug>.md the site serves: fetch answers ok for these and
\* 404 for the other slugs
Published == 1..MaxPublished

\* response.text() of work/<slug>.md
Document(s) == 100 + s

\* the message of the Error thrown for a response that is not ok
\* (`Failed to load markdown: ${response.status}`)
Failed == 404

\* loadWorkMarkdown(slug), settled: resolved with the text of the file, or
\* rejected with the Error
loadWorkMarkdown(s) ==
  IF s \in Published
  THEN [ok |-> TRUE, text |-> Document(s), message |-> 0]
  ELSE [ok |-> FALSE, text |-> 0, message |-> Failed]

Pending == {s \in Slugs : loads[s] > 0}

RECURSIVE SumLoads(_, _)
SumLoads(f, S) ==
  IF S = {} THEN 0
  ELSE LET s == CHOOSE x \in S : TRUE IN f[s] + SumLoads(f, S \ {s})

\* the route parameter changes to s: Work renders again with the states it
\* has, and the effect, whose dependency is slug, calls loadWorkMarkdown(s);
\* the effect returns no cleanup, so the earlier calls stay pending with
\* their callbacks
useEffect(s) ==
  /\ s # slug
  /\ SumLoads(loads, Slugs) < MaxPending
  /\ slug' = s
  /\ loads' = [loads EXCEPT ![s] = @ + 1]
  /\ UNCHANGED <<config, pages, root_page_id, th, model, ub, nops, aux, markdown, error>>

\* a pending loadWorkMarkdown(s) resolves: the .then callback
Resolved(s) ==
  /\ loads[s] > 0
  /\ loadWorkMarkdown(s).ok
  /\ markdown' = loadWorkMarkdown(s).text
  /\ error' = 0
  /\ loads' = [loads EXCEPT ![s] = @ - 1]
  /\ UNCHANGED <<config, pages, root_page_id, th, model, ub, nops, aux, slug>>

\* a pending loadWorkMarkdown(s) rejects: the .catch callback
Rejected(s) ==
  /\ loads[s] > 0
  /\ ~loadWorkMarkdown(s).ok
  /\ markdown' = 0
  /\ error' = loadWorkMarkdown(s).message
  /\ loads' = [loads EXCEPT ![s] = @ - 1]
  /\ UNCHANGED <<config, pages, root_page_id, th, model, ub, nops, aux, slug>>

\* Work mounted at some slug: both states null, the effect of the first
\* render has called loadWorkMarkdown; the index is not involved
InitWork ==
  /\ slug \in Slugs
  /\ markdown = 0
  /\ error = 0
  /\ loads = [s \in Slugs |-> IF s = slug THEN 1 ELSE 0]
  /\ leaf_max_size = 2
  /\ internal_max_size = 3
  /\ latch_coupling = "complete"
  /\ pages = EmptyWorld.pages
  /\ root_page_id = INVALID_PAGE_ID
  /\ th = EmptyWorld.th
  /\ model = EmptyWorld.model
  /\ ub = FALSE
  /\ nops = 0
  /\ it = EndIterator
  /\ script = -1
  /\ walk = NoWalk

NextWork ==
  \/ \E s \in Slugs : useEffect(s)
  \/ \E s \in Slugs : Resolved(s)
  \/ \E s \in Slugs : Rejected(s)

SpecWork == InitWork /\ [][NextWork]_vars

\* C40: once every pending loadWorkMarkdown call has settled, the markdown or
\* the error the Work page shows is the result of the load for the current
\* slug, in whatever order the responses arrived
CurrentSlugShown ==
  Pending = {} =>
    /\ markdown = loadWorkMarkdown(slug).text
    /\ error = loadWorkMarkdown(slug).message

====
